---- MODULE Spec2Model ----
(***************************************************************************)
(* Era-aware extraction and normalization core of the TRREB data           *)
(* extractor: era classifier, extraction dispatcher, table extractors,     *)
(* artifact store with its batch driver, and the schema consistency        *)
(* enforcer.  Text is held as sequences of one-character strings so that   *)
(* comparison, trimming and case folding are computed, not assumed.        *)
(***************************************************************************)
EXTENDS Integers, Sequences, FiniteSets, TLC

VARIABLES
    \* --- era classifier / dispatcher calls ---
    year, month,        \* the publication date the date string is formatted from
    date_str,           \* 'YYYY-MM' text handed to the classifier
    property_type,      \* "all_home_types" or "detached"
    era_pc,             \* "input" before the calls, "called" after
    period,             \* result of determine_period
    extractor,          \* class chosen by get_table_extractor
    expected_columns,   \* result of get_expected_columns
    \* --- artifact store and batch driver ---
    api_key,            \* whether XAI_API_KEY is configured
    run_type,           \* the property type this run converts
    store,              \* processed CSV file of each date: the artifact store
    materialized,       \* history: a process_pdf call on the date returned success
    call,               \* observation of the latest process_pdf call
    b_pc,               \* convert_type: "idle", "loop", "returned" or "raised"
    b_overwrite,        \* convert_type's overwrite argument
    b_files,            \* extracted files, each given by the date its name yields
    b_idx,              \* index of the next file of the loop
    b_results,          \* convert_type's results list
    b_failed,           \* history: for each result, whether producing the CSV failed
    \* --- schema consistency enforcer ---
    cc_pc,              \* "input" before the call, "done" after
    cc_df,              \* the table handed to ensure_column_consistency
    cc_expected,        \* the expected-column list handed to it
    cc_variant,         \* which module's ensure_column_consistency ran
    cc_out,             \* the table it returned
    \* --- normalization of one document's table ---
    nz_pc,              \* "raw", then "once" and "twice" after the passes
    nz_df,              \* the raw table
    nz_date,            \* date_str of the first pass, empty for None
    nz_type,            \* property_type
    nz_variant,         \* which module's normalize_dataset runs
    nz_first,           \* result of the first pass
    nz_date2,           \* date_str of the second pass
    nz_second,          \* result of the second pass, over the first's table
    \* one call of a normalization step
    st_pc,              \* "input", then "done"
    st_df,              \* the table passed in
    st_op,              \* the function called
    st_out,             \* the table returned
    \* one call of Pre2020TableExtractor._identify_municipalities
    id_pc,              \* "input", then "done"
    id_df,              \* the raw table
    id_out,             \* the table returned
    \* one call of a validation function
    va_pc,              \* "input", then "done"
    va_df,              \* the table validated
    va_op,              \* the function called
    va_args,            \* its date_col, date_str and property_type
    va_result,          \* what the call returned or raised
    \* documents converted by the layout-based extractor, then normalize_type
    pl_pc,              \* "convert", "normalize", then "done"
    pl_raw,             \* the raw table extracted from each document
    pl_files,           \* the CSV file of each document
    pl_idx,             \* the document converted next
    pl_args,            \* the date and property_type normalize_type was given
    pl_frames,          \* what reading and normalizing each file gave
    pl_combined,        \* combined_df
    pl_second,          \* what the final normalization pass gave
    pl_out,             \* what normalize_type returned
    \* one call of Pre2020TableExtractor._extract_tabula_tables
    tb_pc,              \* "input", then "done"
    tb_lattice,         \* what tabula.read_pdf answers with lattice=True
    tb_stream,          \* what it answers with stream=True
    tb_ran,             \* the modes tabula.read_pdf was called with, in order
    tb_out,             \* the table returned
    \* one call of Post2020Extractor._generate_prompt
    pr_pc,              \* "input", then "done"
    pr_name,            \* source_name: the document's file name without suffix
    pr_type,            \* the extractor's property_type
    pr_text,            \* the page text
    pr_prompt,          \* the prompt returned
    \* one report fetched by TrrebDownloader.download_file, then handed to
    \* PageExtractor.extract_pdf_pages
    dl_pc,              \* "request", "downloaded" or "failed", then "extracted"
    dl_year,            \* the year asked for
    dl_month,           \* the month asked for
    dl_path,            \* the name of the file written, empty for None
    dl_date,            \* date_str of extract_pdf_pages
    dl_page,            \* the name of the page files written
    \* one ValidationResult and the add_issue calls made on it
    vr_result,          \* the object: [is_valid, issues]
    vr_added,           \* the issues add_issue was given, in the order of the calls
    \* the table object a caller passes to normalize_dataset or to one of the
    \* transform steps
    fr_pc,              \* "input", then "done"
    fr_before,          \* what the caller's table held before the call
    fr_caller,          \* what the caller's table holds
    fr_op,              \* the function called
    fr_out,             \* what the call returned or raised
    fr_same             \* whether the table returned is the caller's table object

era_vars == <<year, month, date_str, property_type, era_pc, period, extractor,
              expected_columns>>

store_vars == <<api_key, run_type, store, materialized, call>>

batch_vars == <<b_pc, b_overwrite, b_files, b_idx, b_results, b_failed>>

cc_vars == <<cc_pc, cc_df, cc_expected, cc_variant, cc_out>>

nz_vars == <<nz_pc, nz_df, nz_date, nz_type, nz_variant, nz_first, nz_date2, nz_second>>

st_vars == <<st_pc, st_df, st_op, st_out>>

id_vars == <<id_pc, id_df, id_out>>

va_vars == <<va_pc, va_df, va_op, va_args, va_result>>

pl_vars == <<pl_pc, pl_raw, pl_files, pl_idx, pl_args, pl_frames, pl_combined,
             pl_second, pl_out>>

tb_vars == <<tb_pc, tb_lattice, tb_stream, tb_ran, tb_out>>

pr_vars == <<pr_pc, pr_name, pr_type, pr_text, pr_prompt>>

dl_vars == <<dl_pc, dl_year, dl_month, dl_path, dl_date, dl_page>>

vr_vars == <<vr_result, vr_added>>

fr_vars == <<fr_pc, fr_before, fr_caller, fr_op, fr_out, fr_same>>

more_vars == <<tb_vars, pr_vars, dl_vars, vr_vars, fr_vars>>

rest_vars == <<st_vars, id_vars, va_vars, pl_vars, more_vars>>

vars == <<era_vars, store_vars, batch_vars, cc_vars, nz_vars, rest_vars>>

(***************************************************************************)
(* Text                                                                    *)
(***************************************************************************)

\* The printable ASCII characters from the space (code point 32) to '_' (95),
\* and from 'a' (97) on.
AsciiLow ==
    <<
      " ", "!", "\"", "#", "$", "%", "&", "'", "(", ")", "*", "+",
      ",", "-", ".", "/", "0", "1", "2", "3", "4", "5", "6", "7",
      "8", "9", ":", ";", "<", "=", ">", "?", "@", "A", "B", "C",
      "D", "E", "F", "G", "H", "I", "J", "K", "L", "M", "N", "O",
      "P", "Q", "R", "S", "T", "U", "V", "W", "X", "Y", "Z", "[",
      "\\", "]", "^", "_"
    >>

AsciiHigh ==
    <<
      "a", "b", "c", "d", "e", "f", "g", "h", "i", "j", "k", "l",
      "m", "n", "o", "p", "q", "r", "s", "t", "u", "v", "w", "x",
      "y", "z", "{", "|", "}", "~"
    >>

\* ord(c)
CodePoint(c) ==
    IF \E i \in 1..Len(AsciiLow) : AsciiLow[i] = c
    THEN 31 + CHOOSE i \in 1..Len(AsciiLow) : AsciiLow[i] = c
    ELSE 96 + CHOOSE i \in 1..Len(AsciiHigh) : AsciiHigh[i] = c

Min(a, b) == IF a < b THEN a ELSE b

\* Python's  a < b  on str: lexicographic by code point, a proper prefix is smaller.
StrLess(a, b) ==
    \/ \E i \in 1..Min(Len(a), Len(b)) :
          /\ \A j \in 1..(i - 1) : a[j] = b[j]
          /\ CodePoint(a[i]) < CodePoint(b[i])
    \/ /\ Len(a) < Len(b)
       /\ \A j \in 1..Len(a) : a[j] = b[j]

DigitChar(n) == <<"0", "1", "2", "3", "4", "5", "6", "7", "8", "9">>[n + 1]

\* str(n) for a natural number n
RECURSIVE IntToStr(_)
IntToStr(n) ==
    IF n < 10 THEN <<DigitChar(n)>>
    ELSE Append(IntToStr(n \div 10), DigitChar(n % 10))

\* s.zfill(2)
ZFill2(s) == IF Len(s) < 2 THEN <<"0">> \o s ELSE s

\* f"{groups[0]}-{groups[1].zfill(2)}"
DateStr(y, m) == IntToStr(y) \o <<"-">> \o ZFill2(IntToStr(m))

(***************************************************************************)
(* Configuration                                                           *)
(***************************************************************************)

START_YEAR == 2016
MaxYear == 2026
EXTRACTION_CUTOFF_DATE == <<"2", "0", "2", "0", "-", "0", "1">>
SECOND_FORMAT_CUTOFF_DATE == <<"2", "0", "2", "2", "-", "0", "4">>

L_Sales == <<"S", "a", "l", "e", "s">>
L_Dollar_Volume == <<"D", "o", "l", "l", "a", "r", " ", "V", "o", "l", "u", "m", "e">>
L_Average_Price == <<"A", "v", "e", "r", "a", "g", "e", " ", "P", "r", "i", "c", "e">>
L_Median_Price == <<"M", "e", "d", "i", "a", "n", " ", "P", "r", "i", "c", "e">>
L_New_Listings == <<"N", "e", "w", " ", "L", "i", "s", "t", "i", "n", "g", "s">>
L_SNLR_Trend == <<"S", "N", "L", "R", " ", "T", "r", "e", "n", "d">>
L_Active_Listings == <<"A", "c", "t", "i", "v", "e", " ", "L", "i", "s", "t", "i", "n", "g", "s">>
L_Months_Inventory == <<"M", "o", "n", "t", "h", "s", " ", "I", "n", "v", "e", "n", "t", "o", "r", "y">>
L_Avg_SP_LP == <<"A", "v", "g", " ", "S", "P", "/", "L", "P">>
L_Avg_DOM == <<"A", "v", "g", " ", "D", "O", "M">>
L_Avg_PDOM == <<"A", "v", "g", " ", "P", "D", "O", "M">>

PRE_2020_ALL_HOME_COLUMNS ==
    <<L_Sales, L_Dollar_Volume, L_Average_Price, L_Median_Price, L_New_Listings,
      L_SNLR_Trend, L_Active_Listings, L_Months_Inventory, L_Avg_SP_LP, L_Avg_DOM>>

PRE_2020_DETACHED_COLUMNS ==
    <<L_Sales, L_Dollar_Volume, L_Average_Price, L_Median_Price, L_New_Listings,
      L_Active_Listings, L_Avg_SP_LP, L_Avg_DOM>>

MID_PERIOD_ALL_HOME_COLUMNS ==
    <<L_Sales, L_Dollar_Volume, L_Average_Price, L_Median_Price, L_New_Listings,
      L_SNLR_Trend, L_Active_Listings, L_Months_Inventory, L_Avg_SP_LP, L_Avg_DOM,
      L_Avg_PDOM>>

MID_PERIOD_DETACHED_COLUMNS ==
    <<L_Sales, L_Dollar_Volume, L_Average_Price, L_Median_Price, L_New_Listings,
      L_Active_Listings, L_Avg_SP_LP, L_Avg_DOM>>

POST_2022_ALL_HOME_COLUMNS ==
    <<L_Sales, L_Dollar_Volume, L_Average_Price, L_Median_Price, L_New_Listings,
      L_SNLR_Trend, L_Active_Listings, L_Months_Inventory, L_Avg_SP_LP, L_Avg_DOM,
      L_Avg_PDOM>>

POST_2022_DETACHED_COLUMNS ==
    <<L_Sales, L_Dollar_Volume, L_Average_Price, L_Median_Price, L_New_Listings,
      L_Active_Listings, L_Avg_SP_LP, L_Avg_DOM>>

PropertyTypes == {"all_home_types", "detached"}
Periods == {"pre-2020", "mid-period", "post-2022"}

(***************************************************************************)
(* Era classifier and extraction dispatcher                                *)
(***************************************************************************)

\* Python's  a <= b  on str
StrLessEq(a, b) == a = b \/ StrLess(a, b)

determine_period_inclusive(d) ==
    IF StrLessEq(d, EXTRACTION_CUTOFF_DATE) THEN "pre-2020"
    ELSE IF StrLessEq(d, SECOND_FORMAT_CUTOFF_DATE) THEN "mid-period"
    ELSE "post-2022"

determine_period(d) ==
    IF StrLess(d, EXTRACTION_CUTOFF_DATE) THEN "pre-2020"
    ELSE IF StrLess(d, SECOND_FORMAT_CUTOFF_DATE) THEN "mid-period"
    ELSE "post-2022"

get_expected_columns_flat(ptype, per) ==
    IF per = "pre-2020" THEN PRE_2020_ALL_HOME_COLUMNS
    ELSE IF per = "mid-period" THEN MID_PERIOD_ALL_HOME_COLUMNS
    ELSE POST_2022_ALL_HOME_COLUMNS

get_expected_columns_dup(ptype, per) ==
    IF ptype = "all_home_types"
    THEN PRE_2020_ALL_HOME_COLUMNS \o <<L_Avg_DOM>>
    ELSE PRE_2020_DETACHED_COLUMNS

get_expected_columns(ptype, per) ==
    IF ptype = "all_home_types"
    THEN IF per = "pre-2020" THEN PRE_2020_ALL_HOME_COLUMNS
         ELSE IF per = "mid-period" THEN MID_PERIOD_ALL_HOME_COLUMNS
         ELSE POST_2022_ALL_HOME_COLUMNS
    ELSE IF per = "pre-2020" THEN PRE_2020_DETACHED_COLUMNS
         ELSE IF per = "mid-period" THEN MID_PERIOD_DETACHED_COLUMNS
         ELSE POST_2022_DETACHED_COLUMNS

get_table_extractor_late(d, ptype) ==
    IF StrLess(d, SECOND_FORMAT_CUTOFF_DATE)
    THEN "Pre2020TableExtractor"
    ELSE "Post2020TableExtractor"

get_table_extractor(d, ptype) ==
    IF StrLess(d, EXTRACTION_CUTOFF_DATE)
    THEN "Pre2020TableExtractor"
    ELSE "Post2020TableExtractor"

(***************************************************************************)
(* Table extraction strategies.  A table is known here by its shape        *)
(* <<rows, cols>>; what the PDF library and the text-generation service    *)
(* answer is an input of the call.                                         *)
(***************************************************************************)

EmptyFrame == <<0, 0>>                       \* pd.DataFrame()
IsEmpty(df) == df[1] = 0 \/ df[2] = 0        \* df.empty

MinTableRows == 5

\* key of max(): t.shape[0] * t.shape[1] if not t.empty else 0
CellCount(t) == IF IsEmpty(t) THEN 0 ELSE t[1] * t[2]

\* the last table whose key is maximal
LargestTable_last(tables) ==
    LET i == CHOOSE k \in 1..Len(tables) :
                 /\ \A j \in 1..Len(tables) : CellCount(tables[j]) <= CellCount(tables[k])
                 /\ \A j \in (k + 1)..Len(tables) : CellCount(tables[j]) < CellCount(tables[k])
    IN  tables[i]

\* max(tables, key=...): the first table whose key is maximal
LargestTable(tables) ==
    LET i == CHOOSE k \in 1..Len(tables) :
                 /\ \A j \in 1..Len(tables) : CellCount(tables[j]) <= CellCount(tables[k])
                 /\ \A j \in 1..(k - 1) : CellCount(tables[j]) < CellCount(tables[k])
    IN  tables[i]

\* all(t.shape[0] < 5 for t in tables if not t.empty)
AllSmall(tables) ==
    \A i \in 1..Len(tables) : ~IsEmpty(tables[i]) => tables[i][1] < MinTableRows

\* lines 179-182: the stream mode is tried after a lattice call that returned
\* no table, or only tables of fewer than 5 rows
RetriesWithStream(lattice) ==
    lattice.ok /\ (lattice.tables = <<>> \/ AllSmall(lattice.tables))

\* Pre2020TableExtractor._extract_tabula_tables; lattice and stream are what
\* tabula.read_pdf answers in each mode: [ok |-> FALSE] when it raises.
\* The result is [raised, df].
extract_tabula_tables_raising(lattice, stream) ==
    IF ~lattice.ok \/ ~stream.ok
    THEN [raised |-> TRUE, df |-> EmptyFrame]
    ELSE [raised |-> FALSE,
          df |-> IF lattice.tables # <<>> THEN LargestTable(lattice.tables)
                 ELSE EmptyFrame]

extract_tabula_tables(lattice, stream) ==
    IF ~lattice.ok
    THEN [raised |-> FALSE, df |-> EmptyFrame]
    ELSE IF lattice.tables = <<>> \/ AllSmall(lattice.tables)
    THEN IF ~stream.ok
         THEN [raised |-> FALSE, df |-> EmptyFrame]
         ELSE IF stream.tables # <<>>
              THEN [raised |-> FALSE, df |-> LargestTable(stream.tables)]
              ELSE [raised |-> FALSE, df |-> EmptyFrame]
    ELSE [raised |-> FALSE, df |-> LargestTable(lattice.tables)]

\* Post2020Extractor.extract_table; has_client is  self.client is not None,
\* page_text the result of _extract_page_text ("" when pdftotext raises),
\* ai what the service call does ("error", "empty" or "csv") and parsed what
\* pd.read_csv makes of the answer ([ok |-> FALSE] when it raises).
extract_csv_from_ai(ai) == IF ai = "csv" THEN "csv" ELSE ""

extract_table_ai(has_client, page_text, ai, parsed) ==
    IF ~has_client THEN [raised |-> FALSE, df |-> EmptyFrame]
    ELSE IF page_text = "" THEN [raised |-> FALSE, df |-> EmptyFrame]
    ELSE IF extract_csv_from_ai(ai) = "" THEN [raised |-> FALSE, df |-> EmptyFrame]
    ELSE IF ~parsed.ok THEN [raised |-> FALSE, df |-> EmptyFrame]
    ELSE [raised |-> FALSE, df |-> parsed.df]

\* extractor.extract_table(pdf_path) of the class the dispatcher chose
extract_table(kind, has_client, env) ==
    IF kind = "Pre2020TableExtractor"
    THEN extract_tabula_tables(env.lattice, env.stream)
    ELSE extract_table_ai(has_client, env.page_text, env.ai, env.parsed)

\* extractor.clean_table(df): raises, returns the table, or returns a table
\* from which every row was filtered.
clean_table(df, outcome) ==
    IF outcome = "raise" THEN [raised |-> TRUE, df |-> EmptyFrame]
    ELSE IF outcome = "empty" THEN [raised |-> FALSE, df |-> EmptyFrame]
    ELSE [raised |-> FALSE, df |-> df]

(***************************************************************************)
(* Artifact store and TableExtractor.process_pdf                           *)
(***************************************************************************)

Absent == [exists |-> FALSE, readable |-> FALSE, shape |-> EmptyFrame]
CsvFile(df) == [exists |-> TRUE, readable |-> TRUE, shape |-> df]
\* what a write that failed half-way leaves behind
PartialFile == [exists |-> TRUE, readable |-> FALSE, shape |-> EmptyFrame]

\* pd.read_csv(output_path).shape, (0, 0) when reading raises
ExistingShape(file) == IF file.readable THEN file.shape ELSE EmptyFrame

\* df.to_csv(output_path): "ok", "raise" before the file is opened, or
\* "partial" when it raises after the file was opened for writing.
to_csv(file, df, outcome) ==
    IF outcome = "ok" THEN [raised |-> FALSE, file |-> CsvFile(df)]
    ELSE IF outcome = "partial" THEN [raised |-> TRUE, file |-> PartialFile]
    ELSE [raised |-> TRUE, file |-> file]

\* The observable outcome of one call: the file afterwards, the returned
\* (success, shape), which of the extractor's methods were invoked, whether
\* extract_table raised or returned an empty table, and whether to_csv completed.
Outcome(file, success, shape, extracted, cleaned, ex_raised, ex_empty, saved) ==
    [file |-> file, success |-> success, shape |-> shape,
     extracted |-> extracted, cleaned |-> cleaned,
     ex_raised |-> ex_raised, ex_empty |-> ex_empty, saved |-> saved]

\* The body of process_pdf after the fast path (lines 79-95); ex is what
\* self.extract_table(pdf_path) does: [raised, df].
ExtractCleanSave(file, ex, clean, csv) ==
    IF ex.raised
    THEN Outcome(file, FALSE, EmptyFrame, TRUE, FALSE, TRUE, FALSE, FALSE)
    ELSE IF IsEmpty(ex.df)
    THEN Outcome(file, FALSE, EmptyFrame, TRUE, FALSE, FALSE, TRUE, FALSE)
    ELSE LET cl == clean_table(ex.df, clean)
             wr == to_csv(file, cl.df, csv)
         IN  IF cl.raised
             THEN Outcome(file, FALSE, EmptyFrame, TRUE, TRUE, FALSE, FALSE, FALSE)
             ELSE IF wr.raised
             THEN Outcome(wr.file, FALSE, EmptyFrame, TRUE, TRUE, FALSE, FALSE, FALSE)
             ELSE Outcome(wr.file, TRUE, cl.df, TRUE, TRUE, FALSE, FALSE, TRUE)

CachedOutcome(file) ==
    Outcome(file, TRUE, ExistingShape(file), FALSE, FALSE, FALSE, FALSE, FALSE)

process_pdf_no_cache(file, overwrite, ex, clean, csv) ==
    ExtractCleanSave(file, ex, clean, csv)

process_pdf_success_unsaved(file, overwrite, ex, clean, csv) ==
    IF file.exists /\ ~overwrite
    THEN CachedOutcome(file)
    ELSE LET cl == clean_table(ex.df, clean)
             wr == to_csv(file, cl.df, csv)
         IN  IF ex.raised \/ IsEmpty(ex.df) \/ cl.raised
             THEN ExtractCleanSave(file, ex, clean, csv)
             ELSE Outcome(wr.file, TRUE, cl.df, TRUE, TRUE, FALSE, FALSE, ~wr.raised)

\* process_pdf reporting the shape of the cleaned table when the save fails
process_pdf_failure_shape(file, overwrite, ex, clean, csv) ==
    IF file.exists /\ ~overwrite
    THEN CachedOutcome(file)
    ELSE LET cl == clean_table(ex.df, clean)
             wr == to_csv(file, cl.df, csv)
         IN  IF ex.raised \/ IsEmpty(ex.df) \/ cl.raised \/ ~wr.raised
             THEN ExtractCleanSave(file, ex, clean, csv)
             ELSE Outcome(wr.file, FALSE, cl.df, TRUE, TRUE, FALSE, FALSE, FALSE)

\* TableExtractor.process_pdf(pdf_path, output_path, overwrite) on the output
\* file `file`; ex, clean and csv are what extract_table, clean_table and
\* to_csv do if they are invoked.
process_pdf(file, overwrite, ex, clean, csv) ==
    IF file.exists /\ ~overwrite
    THEN CachedOutcome(file)
    ELSE ExtractCleanSave(file, ex, clean, csv)

(***************************************************************************)
(* Schema consistency enforcer.  A table is [columns, rows]: the column    *)
(* labels in order and, for each row, its cells in column order.  A cell   *)
(* is [na, s]: null, or the text s.                                        *)
(***************************************************************************)

NullCell == [na |-> TRUE, s |-> <<>>]
Str(s) == [na |-> FALSE, s |-> s]

L_Region == <<"R", "e", "g", "i", "o", "n">>
L_nan == <<"n", "a", "n">>
L_Unnamed_0 == <<"U", "n", "n", "a", "m", "e", "d", ":", " ", "0">>
T_Unnamed == <<"U", "n", "n", "a", "m", "e", "d">>
R_TRREB_Total == <<"T", "R", "R", "E", "B", " ", "T", "o", "t", "a", "l">>
R_TREB_Total == <<"T", "R", "E", "B", " ", "T", "o", "t", "a", "l">>
R_Halton == <<"H", "a", "l", "t", "o", "n">>
R_Peel == <<"P", "e", "e", "l">>
R_Toronto == <<"T", "o", "r", "o", "n", "t", "o">>

UpperChars == <<"A", "B", "C", "D", "E", "F", "G", "H", "I", "J", "K", "L", "M",
                "N", "O", "P", "Q", "R", "S", "T", "U", "V", "W", "X", "Y", "Z">>
LowerChars == <<"a", "b", "c", "d", "e", "f", "g", "h", "i", "j", "k", "l", "m",
                "n", "o", "p", "q", "r", "s", "t", "u", "v", "w", "x", "y", "z">>

IsSpace(c) == c \in {" ", "\t", "\n", "\r"}

\* s.strip()
RECURSIVE LStrip(_)
LStrip(s) == IF s # <<>> /\ IsSpace(Head(s)) THEN LStrip(Tail(s)) ELSE s
RECURSIVE RStrip(_)
RStrip(s) ==
    IF s # <<>> /\ IsSpace(s[Len(s)]) THEN RStrip(SubSeq(s, 1, Len(s) - 1)) ELSE s
Strip(s) == RStrip(LStrip(s))

\* sub in s
Contains(s, sub) ==
    \E i \in 1..(Len(s) - Len(sub) + 1) : SubSeq(s, i, i + Len(sub) - 1) = sub

\* c.lower() of one character
LowerChar(c) ==
    IF \E i \in 1..Len(UpperChars) : UpperChars[i] = c
    THEN LowerChars[CHOOSE i \in 1..Len(UpperChars) : UpperChars[i] = c]
    ELSE c

\* col.replace(" ", "").replace(".", "").lower()
VariationKey(col) ==
    LET kept == SelectSeq(col, LAMBDA c : c \notin {" ", "."})
    IN  [i \in 1..Len(kept) |-> LowerChar(kept[i])]

\* x in seq
InSeq(seq, x) == \E i \in 1..Len(seq) : seq[i] = x

\* df.empty
FrameEmpty(df) == Len(df.columns) = 0 \/ Len(df.rows) = 0

HasCol(df, c) == InSeq(df.columns, c)
ColIndex(df, c) == CHOOSE i \in 1..Len(df.columns) : df.columns[i] = c
\* df[c] as the sequence of its cells
Column(df, c) == [r \in 1..Len(df.rows) |-> df.rows[r][ColIndex(df, c)]]

\* df[c] = None for a column c the table lacks
AddNullColumn(df, c) ==
    [columns |-> Append(df.columns, c),
     rows |-> [r \in 1..Len(df.rows) |-> Append(df.rows[r], NullCell)]]

\* for col in expected_columns: if col not in df.columns: df[col] = None
RECURSIVE AddMissing(_, _)
AddMissing(df, expected) ==
    IF expected = <<>> THEN df
    ELSE AddMissing(IF HasCol(df, Head(expected)) THEN df
                    ELSE AddNullColumn(df, Head(expected)),
                    Tail(expected))

\* df[names]
SelectColumns(df, names) ==
    [columns |-> names,
     rows |-> [r \in 1..Len(df.rows) |->
                  [k \in 1..Len(names) |-> df.rows[r][ColIndex(df, names[k])]]]]

\* df.drop(columns=[c])
DropColumn(df, c) ==
    SelectColumns(df, SelectSeq(df.columns, LAMBDA x : x # c))

SampleHead == 5
RegionSampleNames == {R_TRREB_Total, R_TREB_Total, R_Halton, R_Peel, R_Toronto}

\* df[col].dropna().head(5).astype(str).tolist()
SampleVals(df, c) ==
    LET vals == SelectSeq(Column(df, c), LAMBDA x : ~x.na)
    IN  SubSeq(vals, 1, Min(SampleHead, Len(vals)))

LooksLikeRegions(df, c) ==
    \E k \in 1..Len(SampleVals(df, c)) : SampleVals(df, c)[k].s \in RegionSampleNames

\* normalizer, lines 409-435: the region column
RegionColumn(df) ==
    LET first == df.columns[1]
    IN  IF Strip(first) = <<>> \/ Contains(first, T_Unnamed)
        THEN LET hits == {i \in 1..Len(df.columns) : LooksLikeRegions(df, df.columns[i])}
                 found == IF hits = {} THEN first
                          ELSE df.columns[CHOOSE i \in hits : \A j \in hits : i <= j]
             IN  IF Contains(found, T_Unnamed) /\ HasCol(df, L_Region)
                 THEN L_Region
                 ELSE found
        ELSE first

\* normalizer, lines 447-452: Region takes the 'nan' column's value where it is
\* null or empty, and the 'nan' column is dropped
MergeNanIntoRegion(df) ==
    LET ri == ColIndex(df, L_Region)
        ni == ColIndex(df, L_nan)
        filled == [columns |-> df.columns,
                   rows |-> [r \in 1..Len(df.rows) |->
                       IF df.rows[r][ri].na \/ df.rows[r][ri].s = <<>>
                       THEN [df.rows[r] EXCEPT ![ri] = df.rows[r][ni]]
                       ELSE df.rows[r]]]
    IN  DropColumn(filled, L_nan)

\* normalizer, lines 466-481: the columns beyond the expected ones, except the
\* region column and any column that is a variation of one already placed
RECURSIVE AppendExtras(_, _, _)
AppendExtras(result, cols, region_col) ==
    IF cols = <<>> THEN result
    ELSE LET col == Head(cols)
             skip == \/ InSeq(result, col)
                     \/ col = region_col
                     \/ \E k \in 1..Len(result) : VariationKey(result[k]) = VariationKey(col)
         IN  AppendExtras(IF skip THEN result ELSE Append(result, col),
                          Tail(cols), region_col)

\* services/normalizer/normalization.py: ensure_column_consistency
ensure_column_consistency(df, expected) ==
    IF FrameEmpty(df) THEN df
    ELSE LET region0 == RegionColumn(df)
             added == AddMissing(df, expected)
             merge == HasCol(added, L_Region) /\ HasCol(added, L_nan)
             df2 == IF merge THEN MergeNanIntoRegion(added) ELSE added
             region_col == IF merge THEN L_Region ELSE region0
             start == IF HasCol(df2, L_Region) THEN <<L_Region>> ELSE <<region_col>>
             wanted == SelectSeq(expected, LAMBDA c :
                           HasCol(df2, c) /\ c # region_col /\ c # L_Region)
             result == AppendExtras(start \o wanted, df2.columns, region_col)
             valid == SelectSeq(result, LAMBDA c : HasCol(df2, c))
         IN  SelectColumns(df2, valid)

\* services/data_processor/normalization.py: ensure_column_consistency
ensure_column_consistency_dp(df, expected) ==
    IF FrameEmpty(df) THEN df
    ELSE LET region_col == df.columns[1]
             added == AddMissing(df, expected)
             wanted == SelectSeq(expected, LAMBDA c : HasCol(added, c) /\ c # region_col)
             result == <<region_col>> \o wanted
             extras == SelectSeq(added.columns, LAMBDA c :
                           ~InSeq(result, c) /\ c # region_col)
         IN  SelectColumns(added, result \o extras)

(***************************************************************************)
(* Label maps, region list and region hierarchy                            *)
(***************************************************************************)

\* REGION_NAME_MAPPING: each entry is <<variant, canonical label>>
REGION_NAME_MAPPING ==
    <<
    <<<<"T", "R", "E", "B", " ", "T", "o", "t", "a", "l">>,
      <<"T", "R", "R", "E", "B", " ", "T", "o", "t", "a", "l">>>>,
    <<<<"T", "R", "R", "E", "B", " ", "T", "o", "t", "a", "l">>,
      <<"T", "R", "R", "E", "B", " ", "T", "o", "t", "a", "l">>>>,
    <<<<"A", "l", "l", " ", "T", "R", "R", "E", "B", " ", "A", "r", "e", "a", "s">>,
      <<"T", "R", "R", "E", "B", " ", "T", "o", "t", "a", "l">>>>,
    <<<<"T", "o", "t", "a", "l", " ", "T", "R", "E", "B">>,
      <<"T", "R", "R", "E", "B", " ", "T", "o", "t", "a", "l">>>>,
    <<<<"T", "o", "t", "a", "l", " ", "T", "R", "R", "E", "B">>,
      <<"T", "R", "R", "E", "B", " ", "T", "o", "t", "a", "l">>>>,
    <<<<"E", ".", " ", "G", "w", "i", "l", "l", "i", "m", "b", "u", "r", "y">>,
      <<"E", "a", "s", "t", " ", "G", "w", "i", "l", "l", "i", "m", "b", "u", "r", "y">>>>,
    <<<<"E", "a", "s", "t", " ", "G", "w", "i", "l", "l", "i", "m", "b", "u", "r", "y">>,
      <<"E", "a", "s", "t", " ", "G", "w", "i", "l", "l", "i", "m", "b", "u", "r", "y">>>>,
    <<<<"E", "G", "s", "w", "s", "i", "a", "l", "l", "i", "m", "b", "u", "r", "y">>,
      <<"E", "a", "s", "t", " ", "G", "w", "i", "l", "l", "i", "m", "b", "u", "r", "y">>>>,
    <<<<"G", "E", "s", "w", "s", "i", "a", "l", "l", "i", "m", "b", "u", "r", "y">>,
      <<"E", "a", "s", "t", " ", "G", "w", "i", "l", "l", "i", "m", "b", "u", "r", "y">>>>,
    <<<<"E", " ", "G", "w", "i", "l", "l", "i", "m", "b", "u", "r", "y">>,
      <<"E", "a", "s", "t", " ", "G", "w", "i", "l", "l", "i", "m", "b", "u", "r", "y">>>>,
    <<<<"W", "h", "i", "t", "c", "h", "u", "r", "c", "h", "-", "S", "t", "o", "u", "f", "f", "v", "i", "l", "l", "e">>,
      <<"W", "h", "i", "t", "c", "h", "u", "r", "c", "h", "-", "S", "t", "o", "u", "f", "f", "v", "i", "l", "l", "e">>>>,
    <<<<"S", "t", "o", "u", "f", "f", "v", "i", "l", "l", "e">>,
      <<"W", "h", "i", "t", "c", "h", "u", "r", "c", "h", "-", "S", "t", "o", "u", "f", "f", "v", "i", "l", "l", "e">>>>,
    <<<<"W", ".", " ", "S", "t", "o", "u", "f", "f", "v", "i", "l", "l", "e">>,
      <<"W", "h", "i", "t", "c", "h", "u", "r", "c", "h", "-", "S", "t", "o", "u", "f", "f", "v", "i", "l", "l", "e">>>>,
    <<<<"W", " ", "S", "t", "o", "u", "f", "f", "v", "i", "l", "l", "e">>,
      <<"W", "h", "i", "t", "c", "h", "u", "r", "c", "h", "-", "S", "t", "o", "u", "f", "f", "v", "i", "l", "l", "e">>>>,
    <<<<"W", "h", "i", "t", "c", "h", "u", "r", "c", "h", " ", "S", "t", "o", "u", "f", "f", "v", "i", "l", "l", "e">>,
      <<"W", "h", "i", "t", "c", "h", "u", "r", "c", "h", "-", "S", "t", "o", "u", "f", "f", "v", "i", "l", "l", "e">>>>,
    <<<<"B", "r", "a", "d", "f", "o", "r", "d", " ", "W", "e", "s", "t", " ", "G", "w", "i", "l", "l", "i", "m", "b", "u", "r", "y">>,
      <<"B", "r", "a", "d", "f", "o", "r", "d", " ", "W", "e", "s", "t", " ", "G", "w", "i", "l", "l", "i", "m", "b", "u", "r", "y">>>>,
    <<<<"B", "r", "a", "d", "f", "o", "r", "d", " ", "W", "e", "s", "t">>,
      <<"B", "r", "a", "d", "f", "o", "r", "d", " ", "W", "e", "s", "t", " ", "G", "w", "i", "l", "l", "i", "m", "b", "u", "r", "y">>>>,
    <<<<"B", "r", "a", "d", "f", "o", "r", "d">>,
      <<"B", "r", "a", "d", "f", "o", "r", "d", " ", "W", "e", "s", "t", " ", "G", "w", "i", "l", "l", "i", "m", "b", "u", "r", "y">>>>,
    <<<<"B", "r", "a", "d", "f", "o", "r", "d", " ", "W", ".", " ", "G", "w", "i", "l", "l", "i", "m", "b", "u", "r", "y">>,
      <<"B", "r", "a", "d", "f", "o", "r", "d", " ", "W", "e", "s", "t", " ", "G", "w", "i", "l", "l", "i", "m", "b", "u", "r", "y">>>>,
    <<<<"B", "r", "a", "d", "f", "o", "r", "d", " ", "W", " ", "G", "w", "i", "l", "l", "i", "m", "b", "u", "r", "y">>,
      <<"B", "r", "a", "d", "f", "o", "r", "d", " ", "W", "e", "s", "t", " ", "G", "w", "i", "l", "l", "i", "m", "b", "u", "r", "y">>>>,
    <<<<"A", "d", "j", "a", "l", "a", "-", "T", "o", "s", "o", "r", "o", "n", "t", "i", "o">>,
      <<"A", "d", "j", "a", "l", "a", "-", "T", "o", "s", "o", "r", "o", "n", "t", "i", "o">>>>,
    <<<<"A", "d", "j", "a", "l", "a", " ", "T", "o", "s", "o", "r", "o", "n", "t", "i", "o">>,
      <<"A", "d", "j", "a", "l", "a", "-", "T", "o", "s", "o", "r", "o", "n", "t", "i", "o">>>>,
    <<<<"K", "i", "n", "g", " ", "T", "o", "w", "n", "s", "h", "i", "p">>,
      <<"K", "i", "n", "g">>>>,
    <<<<"K", "i", "n", "g">>,
      <<"K", "i", "n", "g">>>>,
    <<<<"K", "i", "n", "g", " ", "T", "w", "p">>,
      <<"K", "i", "n", "g">>>>,
    <<<<"K", "i", "n", "g", " ", "T", "w", "p", ".">>,
      <<"K", "i", "n", "g">>>>,
    <<<<"H", "a", "l", "t", "o", "n">>,
      <<"H", "a", "l", "t", "o", "n", " ", "R", "e", "g", "i", "o", "n">>>>,
    <<<<"H", "a", "l", "t", "o", "n", " ", "R", "e", "g", "i", "o", "n">>,
      <<"H", "a", "l", "t", "o", "n", " ", "R", "e", "g", "i", "o", "n">>>>,
    <<<<"T", "o", "r", "o", "n", "t", "o", ",", " ", "C", "i", "t", "y", " ", "o", "f">>,
      <<"C", "i", "t", "y", " ", "o", "f", " ", "T", "o", "r", "o", "n", "t", "o">>>>,
    <<<<"T", "o", "r", "o", "n", "t", "o", " ", "C", "i", "t", "y">>,
      <<"C", "i", "t", "y", " ", "o", "f", " ", "T", "o", "r", "o", "n", "t", "o">>>>,
    <<<<"C", "i", "t", "y", " ", "o", "f", " ", "T", "o", "r", "o", "n", "t", "o">>,
      <<"C", "i", "t", "y", " ", "o", "f", " ", "T", "o", "r", "o", "n", "t", "o">>>>,
    <<<<"T", "o", "r", "o", "n", "t", "o", " ", "W", ".">>,
      <<"T", "o", "r", "o", "n", "t", "o", " ", "W", "e", "s", "t">>>>,
    <<<<"T", "o", "r", "o", "n", "t", "o", " ", "W", "e", "s", "t">>,
      <<"T", "o", "r", "o", "n", "t", "o", " ", "W", "e", "s", "t">>>>,
    <<<<"T", "o", "r", "o", "n", "t", "o", " ", "C", ".">>,
      <<"T", "o", "r", "o", "n", "t", "o", " ", "C", "e", "n", "t", "r", "a", "l">>>>,
    <<<<"T", "o", "r", "o", "n", "t", "o", " ", "C", "e", "n", "t", "r", "a", "l">>,
      <<"T", "o", "r", "o", "n", "t", "o", " ", "C", "e", "n", "t", "r", "a", "l">>>>,
    <<<<"T", "o", "r", "o", "n", "t", "o", " ", "E", ".">>,
      <<"T", "o", "r", "o", "n", "t", "o", " ", "E", "a", "s", "t">>>>,
    <<<<"T", "o", "r", "o", "n", "t", "o", " ", "E", "a", "s", "t">>,
      <<"T", "o", "r", "o", "n", "t", "o", " ", "E", "a", "s", "t">>>>
    >>

\* COLUMN_NAME_MAPPING: each entry is <<variant, canonical label>>
COLUMN_NAME_MAPPING ==
    <<
    <<<<"N", "u", "m", "b", "e", "r", " ", "o", "f", " ", "S", "a", "l", "e", "s">>,
      <<"S", "a", "l", "e", "s">>>>,
    <<<<"#", " ", "o", "f", " ", "S", "a", "l", "e", "s">>,
      <<"S", "a", "l", "e", "s">>>>,
    <<<<"S", "a", "l", "e", "s">>,
      <<"S", "a", "l", "e", "s">>>>,
    <<<<"S", "a", "l", "e", "s", "1">>,
      <<"S", "a", "l", "e", "s">>>>,
    <<<<"S", "a", "l", "e", "s", " ", "1">>,
      <<"S", "a", "l", "e", "s">>>>,
    <<<<"N", "o", ".", " ", "o", "f", " ", "S", "a", "l", "e", "s">>,
      <<"S", "a", "l", "e", "s">>>>,
    <<<<"T", "o", "t", "a", "l", " ", "S", "a", "l", "e", "s">>,
      <<"S", "a", "l", "e", "s">>>>,
    <<<<"D", "o", "l", "l", "a", "r", " ", "V", "o", "l", "u", "m", "e", "1">>,
      <<"D", "o", "l", "l", "a", "r", " ", "V", "o", "l", "u", "m", "e">>>>,
    <<<<"D", "o", "l", "l", "a", "r", " ", "V", "o", "l", "u", "m", "e", " ", "1">>,
      <<"D", "o", "l", "l", "a", "r", " ", "V", "o", "l", "u", "m", "e">>>>,
    <<<<"D", "o", "l", "l", "a", "r", " ", "V", "o", "l", "u", "m", "e">>,
      <<"D", "o", "l", "l", "a", "r", " ", "V", "o", "l", "u", "m", "e">>>>,
    <<<<"$", " ", "V", "o", "l", "u", "m", "e">>,
      <<"D", "o", "l", "l", "a", "r", " ", "V", "o", "l", "u", "m", "e">>>>,
    <<<<"V", "o", "l", "u", "m", "e", " ", "(", "$", ")">>,
      <<"D", "o", "l", "l", "a", "r", " ", "V", "o", "l", "u", "m", "e">>>>,
    <<<<"A", "v", "e", "r", "a", "g", "e", " ", "P", "r", "i", "c", "e", "1">>,
      <<"A", "v", "e", "r", "a", "g", "e", " ", "P", "r", "i", "c", "e">>>>,
    <<<<"A", "v", "e", "r", "a", "g", "e", " ", "P", "r", "i", "c", "e", " ", "1">>,
      <<"A", "v", "e", "r", "a", "g", "e", " ", "P", "r", "i", "c", "e">>>>,
    <<<<"A", "v", "e", "r", "a", "g", "e", " ", "P", "r", "i", "c", "e">>,
      <<"A", "v", "e", "r", "a", "g", "e", " ", "P", "r", "i", "c", "e">>>>,
    <<<<"A", "v", "g", ".", " ", "P", "r", "i", "c", "e">>,
      <<"A", "v", "e", "r", "a", "g", "e", " ", "P", "r", "i", "c", "e">>>>,
    <<<<"A", "v", "g", " ", "P", "r", "i", "c", "e">>,
      <<"A", "v", "e", "r", "a", "g", "e", " ", "P", "r", "i", "c", "e">>>>,
    <<<<"M", "e", "d", "i", "a", "n", " ", "P", "r", "i", "c", "e", "1">>,
      <<"M", "e", "d", "i", "a", "n", " ", "P", "r", "i", "c", "e">>>>,
    <<<<"M", "e", "d", "i", "a", "n", " ", "P", "r", "i", "c", "e", " ", "1">>,
      <<"M", "e", "d", "i", "a", "n", " ", "P", "r", "i", "c", "e">>>>,
    <<<<"M", "e", "d", "i", "a", "n", " ", "P", "r", "i", "c", "e">>,
      <<"M", "e", "d", "i", "a", "n", " ", "P", "r", "i", "c", "e">>>>,
    <<<<"M", "e", "d", ".", " ", "P", "r", "i", "c", "e">>,
      <<"M", "e", "d", "i", "a", "n", " ", "P", "r", "i", "c", "e">>>>,
    <<<<"M", "e", "d", " ", "P", "r", "i", "c", "e">>,
      <<"M", "e", "d", "i", "a", "n", " ", "P", "r", "i", "c", "e">>>>,
    <<<<"N", "e", "w", " ", "L", "i", "s", "t", "i", "n", "g", "s", "2">>,
      <<"N", "e", "w", " ", "L", "i", "s", "t", "i", "n", "g", "s">>>>,
    <<<<"N", "e", "w", " ", "L", "i", "s", "t", "i", "n", "g", "s", " ", "2">>,
      <<"N", "e", "w", " ", "L", "i", "s", "t", "i", "n", "g", "s">>>>,
    <<<<"N", "e", "w", " ", "L", "i", "s", "t", "i", "n", "g", "s">>,
      <<"N", "e", "w", " ", "L", "i", "s", "t", "i", "n", "g", "s">>>>,
    <<<<"N", "e", "w", " ", "L", "i", "s", "t", ".">>,
      <<"N", "e", "w", " ", "L", "i", "s", "t", "i", "n", "g", "s">>>>,
    <<<<"S", "N", "L", "R", " ", "(", "T", "r", "e", "n", "d", ")", " ", "8">>,
      <<"S", "N", "L", "R", " ", "T", "r", "e", "n", "d">>>>,
    <<<<"S", "N", "L", "R", " ", "(", "T", "r", "e", "n", "d", ")", "8">>,
      <<"S", "N", "L", "R", " ", "T", "r", "e", "n", "d">>>>,
    <<<<"S", "N", "L", "R", " ", "(", "T", "r", "e", "n", "d", ")", " ", "9">>,
      <<"S", "N", "L", "R", " ", "T", "r", "e", "n", "d">>>>,
    <<<<"S", "N", "L", "R", " ", "(", "T", "r", "e", "n", "d", ")", "9">>,
      <<"S", "N", "L", "R", " ", "T", "r", "e", "n", "d">>>>,
    <<<<"S", "N", "L", "R", " ", "(", "T", "r", "e", "n", "d", ")">>,
      <<"S", "N", "L", "R", " ", "T", "r", "e", "n", "d">>>>,
    <<<<"S", "N", "L", "R", " ", "T", "r", "e", "n", "d">>,
      <<"S", "N", "L", "R", " ", "T", "r", "e", "n", "d">>>>,
    <<<<"S", "N", "L", "R", " ", "(", "%", ")">>,
      <<"S", "N", "L", "R", " ", "T", "r", "e", "n", "d">>>>,
    <<<<"S", "a", "l", "e", "s", "-", "t", "o", "-", "N", "e", "w", " ", "L", "i", "s", "t", "i", "n", "g", "s", " ", "R", "a", "t", "i", "o">>,
      <<"S", "N", "L", "R", " ", "T", "r", "e", "n", "d">>>>,
    <<<<"A", "c", "t", "i", "v", "e", " ", "L", "i", "s", "t", "i", "n", "g", "s", " ", "3">>,
      <<"A", "c", "t", "i", "v", "e", " ", "L", "i", "s", "t", "i", "n", "g", "s">>>>,
    <<<<"A", "c", "t", "i", "v", "e", " ", "L", "i", "s", "t", "i", "n", "g", "s", "3">>,
      <<"A", "c", "t", "i", "v", "e", " ", "L", "i", "s", "t", "i", "n", "g", "s">>>>,
    <<<<"A", "c", "t", "i", "v", "e", " ", "L", "i", "s", "t", "i", "n", "g", "s">>,
      <<"A", "c", "t", "i", "v", "e", " ", "L", "i", "s", "t", "i", "n", "g", "s">>>>,
    <<<<"A", "c", "t", ".", " ", "L", "i", "s", "t", ".">>,
      <<"A", "c", "t", "i", "v", "e", " ", "L", "i", "s", "t", "i", "n", "g", "s">>>>,
    <<<<"A", "c", "t", "i", "v", "e", " ", "L", "i", "s", "t", ".">>,
      <<"A", "c", "t", "i", "v", "e", " ", "L", "i", "s", "t", "i", "n", "g", "s">>>>,
    <<<<"M", "o", "s", ".", " ", "I", "n", "v", ".", " ", "(", "T", "r", "e", "n", "d", ")", "9">>,
      <<"M", "o", "n", "t", "h", "s", " ", "I", "n", "v", "e", "n", "t", "o", "r", "y">>>>,
    <<<<"M", "o", "s", ".", " ", "I", "n", "v", ".", " ", "(", "T", "r", "e", "n", "d", ")", " ", "9">>,
      <<"M", "o", "n", "t", "h", "s", " ", "I", "n", "v", "e", "n", "t", "o", "r", "y">>>>,
    <<<<"M", "o", "s", ".", " ", "I", "n", "v", " ", "(", "T", "r", "e", "n", "d", ")">>,
      <<"M", "o", "n", "t", "h", "s", " ", "I", "n", "v", "e", "n", "t", "o", "r", "y">>>>,
    <<<<"M", "o", "s", " ", "I", "n", "v", " ", "(", "T", "r", "e", "n", "d", ")">>,
      <<"M", "o", "n", "t", "h", "s", " ", "I", "n", "v", "e", "n", "t", "o", "r", "y">>>>,
    <<<<"M", "o", "s", ".", " ", "I", "n", "v", ".", " ", "(", "T", "r", "e", "n", "d", ")">>,
      <<"M", "o", "n", "t", "h", "s", " ", "I", "n", "v", "e", "n", "t", "o", "r", "y">>>>,
    <<<<"M", "o", "s", " ", "I", "n", "v", " ", "(", "T", "r", "e", "n", "d", ")", " ", "9">>,
      <<"M", "o", "n", "t", "h", "s", " ", "I", "n", "v", "e", "n", "t", "o", "r", "y">>>>,
    <<<<"M", "o", "s", ".", " ", "I", "n", "v", ".">>,
      <<"M", "o", "n", "t", "h", "s", " ", "I", "n", "v", "e", "n", "t", "o", "r", "y">>>>,
    <<<<"M", "o", "n", "t", "h", "s", " ", "o", "f", " ", "I", "n", "v", "e", "n", "t", "o", "r", "y">>,
      <<"M", "o", "n", "t", "h", "s", " ", "I", "n", "v", "e", "n", "t", "o", "r", "y">>>>,
    <<<<"A", "v", "g", ".", " ", "S", "P", " ", "/", " ", "L", "P", "4">>,
      <<"A", "v", "g", " ", "S", "P", "/", "L", "P">>>>,
    <<<<"A", "v", "g", ".", " ", "S", "P", "/", "L", "P", "4">>,
      <<"A", "v", "g", " ", "S", "P", "/", "L", "P">>>>,
    <<<<"A", "v", "g", ".", " ", "S", "P", "/", "L", "P">>,
      <<"A", "v", "g", " ", "S", "P", "/", "L", "P">>>>,
    <<<<"A", "v", "g", " ", "S", "P", "/", "L", "P">>,
      <<"A", "v", "g", " ", "S", "P", "/", "L", "P">>>>,
    <<<<"A", "v", "g", ".", " ", "S", "P", "/", "L", "P", " ", "4">>,
      <<"A", "v", "g", " ", "S", "P", "/", "L", "P">>>>,
    <<<<"S", "P", "/", "L", "P", " ", "R", "a", "t", "i", "o">>,
      <<"A", "v", "g", " ", "S", "P", "/", "L", "P">>>>,
    <<<<"S", "P", "/", "L", "P", " ", "(", "%", ")">>,
      <<"A", "v", "g", " ", "S", "P", "/", "L", "P">>>>,
    <<<<"A", "v", "g", ".", " ", "D", "O", "M", "5">>,
      <<"A", "v", "g", " ", "D", "O", "M">>>>,
    <<<<"A", "v", "g", ".", " ", "D", "O", "M", " ", "5">>,
      <<"A", "v", "g", " ", "D", "O", "M">>>>,
    <<<<"A", "v", "g", ".", " ", "L", "D", "O", "M">>,
      <<"A", "v", "g", " ", "D", "O", "M">>>>,
    <<<<"A", "v", "g", " ", "L", "D", "O", "M">>,
      <<"A", "v", "g", " ", "D", "O", "M">>>>,
    <<<<"A", "v", "g", ".", " ", "D", "a", "y", "s", " ", "o", "n", " ", "M", "a", "r", "k", "e", "t">>,
      <<"A", "v", "g", " ", "D", "O", "M">>>>,
    <<<<"A", "v", "g", " ", "D", "O", "M">>,
      <<"A", "v", "g", " ", "D", "O", "M">>>>,
    <<<<"A", "v", "g", ".", " ", "P", "D", "O", "M">>,
      <<"A", "v", "g", " ", "P", "D", "O", "M">>>>,
    <<<<"A", "v", "g", " ", "P", "D", "O", "M">>,
      <<"A", "v", "g", " ", "P", "D", "O", "M">>>>,
    <<<<"A", "v", "g", ".", " ", "P", "r", "o", "p", "e", "r", "t", "y", " ", "D", "O", "M">>,
      <<"A", "v", "g", " ", "P", "D", "O", "M">>>>,
    <<<<"P", "r", "o", "p", "e", "r", "t", "y", " ", "D", "O", "M">>,
      <<"A", "v", "g", " ", "P", "D", "O", "M">>>>
    >>

ALL_REGIONS ==
    <<
    <<"T", "R", "R", "E", "B", " ", "T", "o", "t", "a", "l">>,
    <<"H", "a", "l", "t", "o", "n", " ", "R", "e", "g", "i", "o", "n">>,
    <<"B", "u", "r", "l", "i", "n", "g", "t", "o", "n">>,
    <<"H", "a", "l", "t", "o", "n", " ", "H", "i", "l", "l", "s">>,
    <<"M", "i", "l", "t", "o", "n">>,
    <<"O", "a", "k", "v", "i", "l", "l", "e">>,
    <<"P", "e", "e", "l", " ", "R", "e", "g", "i", "o", "n">>,
    <<"B", "r", "a", "m", "p", "t", "o", "n">>,
    <<"C", "a", "l", "e", "d", "o", "n">>,
    <<"M", "i", "s", "s", "i", "s", "s", "a", "u", "g", "a">>,
    <<"C", "i", "t", "y", " ", "o", "f", " ", "T", "o", "r", "o", "n", "t", "o">>,
    <<"T", "o", "r", "o", "n", "t", "o", " ", "W", "e", "s", "t">>,
    <<"T", "o", "r", "o", "n", "t", "o", " ", "C", "e", "n", "t", "r", "a", "l">>,
    <<"T", "o", "r", "o", "n", "t", "o", " ", "E", "a", "s", "t">>,
    <<"Y", "o", "r", "k", " ", "R", "e", "g", "i", "o", "n">>,
    <<"A", "u", "r", "o", "r", "a">>,
    <<"E", "a", "s", "t", " ", "G", "w", "i", "l", "l", "i", "m", "b", "u", "r", "y">>,
    <<"G", "e", "o", "r", "g", "i", "n", "a">>,
    <<"K", "i", "n", "g">>,
    <<"M", "a", "r", "k", "h", "a", "m">>,
    <<"N", "e", "w", "m", "a", "r", "k", "e", "t">>,
    <<"R", "i", "c", "h", "m", "o", "n", "d", " ", "H", "i", "l", "l">>,
    <<"V", "a", "u", "g", "h", "a", "n">>,
    <<"W", "h", "i", "t", "c", "h", "u", "r", "c", "h", "-", "S", "t", "o", "u", "f", "f", "v", "i", "l", "l", "e">>,
    <<"D", "u", "r", "h", "a", "m", " ", "R", "e", "g", "i", "o", "n">>,
    <<"A", "j", "a", "x">>,
    <<"B", "r", "o", "c", "k">>,
    <<"C", "l", "a", "r", "i", "n", "g", "t", "o", "n">>,
    <<"O", "s", "h", "a", "w", "a">>,
    <<"P", "i", "c", "k", "e", "r", "i", "n", "g">>,
    <<"S", "c", "u", "g", "o", "g">>,
    <<"U", "x", "b", "r", "i", "d", "g", "e">>,
    <<"W", "h", "i", "t", "b", "y">>,
    <<"D", "u", "f", "f", "e", "r", "i", "n", " ", "C", "o", "u", "n", "t", "y">>,
    <<"O", "r", "a", "n", "g", "e", "v", "i", "l", "l", "e">>,
    <<"S", "i", "m", "c", "o", "e", " ", "C", "o", "u", "n", "t", "y">>,
    <<"A", "d", "j", "a", "l", "a", "-", "T", "o", "s", "o", "r", "o", "n", "t", "i", "o">>,
    <<"B", "r", "a", "d", "f", "o", "r", "d", " ", "W", "e", "s", "t", " ", "G", "w", "i", "l", "l", "i", "m", "b", "u", "r", "y">>,
    <<"E", "s", "s", "a">>,
    <<"I", "n", "n", "i", "s", "f", "i", "l">>,
    <<"N", "e", "w", " ", "T", "e", "c", "u", "m", "s", "e", "t", "h">>
    >>

\* REGION_HIERARCHY: each entry is <<parent, children>>
REGION_HIERARCHY ==
    <<
    <<<<"T", "R", "R", "E", "B", " ", "T", "o", "t", "a", "l">>,
      <<<<"H", "a", "l", "t", "o", "n", " ", "R", "e", "g", "i", "o", "n">>,
        <<"P", "e", "e", "l", " ", "R", "e", "g", "i", "o", "n">>,
        <<"C", "i", "t", "y", " ", "o", "f", " ", "T", "o", "r", "o", "n", "t", "o">>,
        <<"Y", "o", "r", "k", " ", "R", "e", "g", "i", "o", "n">>,
        <<"D", "u", "r", "h", "a", "m", " ", "R", "e", "g", "i", "o", "n">>,
        <<"D", "u", "f", "f", "e", "r", "i", "n", " ", "C", "o", "u", "n", "t", "y">>,
        <<"S", "i", "m", "c", "o", "e", " ", "C", "o", "u", "n", "t", "y">>>>>>,
    <<<<"H", "a", "l", "t", "o", "n", " ", "R", "e", "g", "i", "o", "n">>,
      <<<<"B", "u", "r", "l", "i", "n", "g", "t", "o", "n">>,
        <<"H", "a", "l", "t", "o", "n", " ", "H", "i", "l", "l", "s">>,
        <<"M", "i", "l", "t", "o", "n">>,
        <<"O", "a", "k", "v", "i", "l", "l", "e">>>>>>,
    <<<<"P", "e", "e", "l", " ", "R", "e", "g", "i", "o", "n">>,
      <<<<"B", "r", "a", "m", "p", "t", "o", "n">>,
        <<"C", "a", "l", "e", "d", "o", "n">>,
        <<"M", "i", "s", "s", "i", "s", "s", "a", "u", "g", "a">>>>>>,
    <<<<"C", "i", "t", "y", " ", "o", "f", " ", "T", "o", "r", "o", "n", "t", "o">>,
      <<<<"T", "o", "r", "o", "n", "t", "o", " ", "W", "e", "s", "t">>,
        <<"T", "o", "r", "o", "n", "t", "o", " ", "C", "e", "n", "t", "r", "a", "l">>,
        <<"T", "o", "r", "o", "n", "t", "o", " ", "E", "a", "s", "t">>>>>>,
    <<<<"Y", "o", "r", "k", " ", "R", "e", "g", "i", "o", "n">>,
      <<<<"A", "u", "r", "o", "r", "a">>,
        <<"E", "a", "s", "t", " ", "G", "w", "i", "l", "l", "i", "m", "b", "u", "r", "y">>,
        <<"G", "e", "o", "r", "g", "i", "n", "a">>,
        <<"K", "i", "n", "g">>,
        <<"M", "a", "r", "k", "h", "a", "m">>,
        <<"N", "e", "w", "m", "a", "r", "k", "e", "t">>,
        <<"R", "i", "c", "h", "m", "o", "n", "d", " ", "H", "i", "l", "l">>,
        <<"V", "a", "u", "g", "h", "a", "n">>,
        <<"W", "h", "i", "t", "c", "h", "u", "r", "c", "h", "-", "S", "t", "o", "u", "f", "f", "v", "i", "l", "l", "e">>>>>>,
    <<<<"D", "u", "r", "h", "a", "m", " ", "R", "e", "g", "i", "o", "n">>,
      <<<<"A", "j", "a", "x">>,
        <<"B", "r", "o", "c", "k">>,
        <<"C", "l", "a", "r", "i", "n", "g", "t", "o", "n">>,
        <<"O", "s", "h", "a", "w", "a">>,
        <<"P", "i", "c", "k", "e", "r", "i", "n", "g">>,
        <<"S", "c", "u", "g", "o", "g">>,
        <<"U", "x", "b", "r", "i", "d", "g", "e">>,
        <<"W", "h", "i", "t", "b", "y">>>>>>,
    <<<<"D", "u", "f", "f", "e", "r", "i", "n", " ", "C", "o", "u", "n", "t", "y">>,
      <<<<"O", "r", "a", "n", "g", "e", "v", "i", "l", "l", "e">>>>>>,
    <<<<"S", "i", "m", "c", "o", "e", " ", "C", "o", "u", "n", "t", "y">>,
      <<<<"A", "d", "j", "a", "l", "a", "-", "T", "o", "s", "o", "r", "o", "n", "t", "i", "o">>,
        <<"B", "r", "a", "d", "f", "o", "r", "d", " ", "W", "e", "s", "t", " ", "G", "w", "i", "l", "l", "i", "m", "b", "u", "r", "y">>,
        <<"E", "s", "s", "a">>,
        <<"I", "n", "n", "i", "s", "f", "i", "l">>,
        <<"N", "e", "w", " ", "T", "e", "c", "u", "m", "s", "e", "t", "h">>>>>>
    >>

\* mapping.get(key, default)
HasKey(mapping, key) == \E i \in 1..Len(mapping) : mapping[i][1] = key
Get(mapping, key, default) ==
    IF HasKey(mapping, key)
    THEN mapping[CHOOSE i \in 1..Len(mapping) : mapping[i][1] = key][2]
    ELSE default

(***************************************************************************)
(* Prompt of the assisted extractor (extractor/post_2020.py).  A prompt is *)
(* known by the instruction template it was built from and the page text   *)
(* placed in its DATA section; a template is known by the report it names  *)
(* as its pattern, the columns it asks for and the first region it quotes. *)
(***************************************************************************)

T_January_2020 == <<"J", "a", "n", "u", "a", "r", "y", " ", "2", "0", "2", "0">>
T_June_2024 == <<"J", "u", "n", "e", " ", "2", "0", "2", "4">>
T_No_of_Sales == <<"#", " ", "o", "f", " ", "S", "a", "l", "e", "s">>
R_All_TRREB_Areas == <<"A", "l", "l", " ", "T", "R", "R", "E", "B", " ", "A", "r", "e", "a", "s">>

\* lines 133-154, 157-176, 180-201, 204-222: the four instruction templates
MidAllHomeTemplate ==
    [report |-> T_January_2020, sales |-> T_No_of_Sales, fields |-> 12,
     total |-> R_TREB_Total]
MidDetachedTemplate ==
    [report |-> T_January_2020, sales |-> T_No_of_Sales, fields |-> 9,
     total |-> R_TREB_Total]
LateAllHomeTemplate ==
    [report |-> T_June_2024, sales |-> L_Sales, fields |-> 12,
     total |-> R_All_TRREB_Areas]
LateDetachedTemplate ==
    [report |-> T_January_2020, sales |-> T_No_of_Sales, fields |-> 9,
     total |-> R_All_TRREB_Areas]

NoPrompt == [template |-> MidAllHomeTemplate, data |-> <<>>, made |-> FALSE]
Prompt(template, text) == [template |-> template, data |-> text, made |-> TRUE]

\* Post2020Extractor._generate_prompt(text, source_name), lines 131-222:
\* "2020-01" <= source_name <= "2022-04" on str
generate_prompt(text, source_name, ptype) ==
    IF /\ StrLessEq(EXTRACTION_CUTOFF_DATE, source_name)
       /\ StrLessEq(source_name, SECOND_FORMAT_CUTOFF_DATE)
    THEN IF ptype = "all_home_types"
         THEN Prompt(MidAllHomeTemplate, text)
         ELSE Prompt(MidDetachedTemplate, text)
    ELSE IF ptype = "all_home_types"
         THEN Prompt(LateAllHomeTemplate, text)
         ELSE Prompt(LateDetachedTemplate, text)

(***************************************************************************)
(* Typed cells.  Beside the null object NullCell (None) and text, a cell   *)
(* of a numeric column is the float NaN or a number; a number carries its  *)
(* decimal notation in s.  A column is of numeric dtype when all its cells *)
(* are, and of object dtype otherwise.                                     *)
(***************************************************************************)

NaNCell == [na |-> TRUE, s |-> <<>>, num |-> TRUE]
Num(s) == [na |-> FALSE, s |-> s, num |-> TRUE]

IsNum(c) == "num" \in DOMAIN c
IsText(c) == ~c.na /\ ~IsNum(c)

T_None == <<"N", "o", "n", "e">>

\* a table with no column and no row
NoFrame == [columns |-> <<>>, rows |-> <<>>]

\* pd.api.types.is_numeric_dtype / is_object_dtype of a column
IsNumericDtype(cells) == \A i \in 1..Len(cells) : IsNum(cells[i])
IsObjectDtype(cells) == ~IsNumericDtype(cells)

\* str(x) of one cell, as Series.astype(str) applies it
AsStr(c) ==
    IF c.na THEN (IF IsNum(c) THEN L_nan ELSE T_None) ELSE c.s

\* s.strip('"')
RECURSIVE LStripQuote(_)
LStripQuote(s) == IF s # <<>> /\ Head(s) = "\"" THEN LStripQuote(Tail(s)) ELSE s
RECURSIVE RStripQuote(_)
RStripQuote(s) ==
    IF s # <<>> /\ s[Len(s)] = "\"" THEN RStripQuote(SubSeq(s, 1, Len(s) - 1)) ELSE s
StripQuote(s) == RStripQuote(LStripQuote(s))

\* s.replace(c, "") for a one-character c
Remove(s, c) == SelectSeq(s, LAMBDA x : x # c)

\* series.astype(str).str.strip().str.strip('"') of one cell
CleanText(c) == Str(StripQuote(Strip(AsStr(c))))

Digits == {"0", "1", "2", "3", "4", "5", "6", "7", "8", "9"}
IsDigits(s) == \A i \in 1..Len(s) : s[i] \in Digits

RECURSIVE DigitsToInt(_)
DigitsToInt(s) ==
    IF s = <<>> THEN 0
    ELSE DigitsToInt(SubSeq(s, 1, Len(s) - 1)) * 10 + (CodePoint(s[Len(s)]) - 48)

RECURSIVE Pow10(_)
Pow10(e) == IF e = 0 THEN 1 ELSE 10 * Pow10(e - 1)

\* A decimal number: (-1)^neg * n / 10^e, with no trailing zero in the fraction.
RECURSIVE Reduced(_)
Reduced(v) ==
    IF v.e > 0 /\ v.n % 10 = 0
    THEN Reduced([neg |-> v.neg, n |-> v.n \div 10, e |-> v.e - 1])
    ELSE IF v.n = 0 THEN [neg |-> FALSE, n |-> 0, e |-> 0] ELSE v

\* The number a text denotes for pd.to_numeric: optional sign, digits with at
\* most one decimal point, surrounding whitespace ignored.
IsNumberText(s) ==
    LET t == Strip(s)
        u == IF t # <<>> /\ Head(t) \in {"-", "+"} THEN Tail(t) ELSE t
        d == Remove(u, ".")
    IN  /\ d # <<>>
        /\ IsDigits(d)
        /\ Len(u) - Len(d) <= 1

NumberOf(s) ==
    LET t == Strip(s)
        neg == t # <<>> /\ Head(t) = "-"
        u == IF t # <<>> /\ Head(t) \in {"-", "+"} THEN Tail(t) ELSE t
        dot == IF \E i \in 1..Len(u) : u[i] = "."
               THEN CHOOSE i \in 1..Len(u) : u[i] = "."
               ELSE Len(u) + 1
        frac == SubSeq(u, dot + 1, Len(u))
    IN  Reduced([neg |-> neg, n |-> DigitsToInt(Remove(u, ".")), e |-> Len(frac)])

RECURSIVE ZeroPad(_, _)
ZeroPad(s, w) == IF Len(s) < w THEN ZeroPad(<<"0">> \o s, w) ELSE s

\* The decimal notation of a number.
Notation(v) ==
    LET d == ZeroPad(IntToStr(v.n), v.e + 1)
        whole == SubSeq(d, 1, Len(d) - v.e)
        frac == SubSeq(d, Len(d) - v.e + 1, Len(d))
    IN  (IF v.neg THEN <<"-">> ELSE <<>>) \o whole
            \o (IF v.e > 0 THEN <<".">> \o frac ELSE <<>>)

ValueOf(c) == NumberOf(c.s)
NumCell(v) == Num(Notation(Reduced(v)))

\* pd.to_numeric(series, errors="coerce") of one cell of a text column
to_numeric(c) ==
    IF ~c.na /\ IsNumberText(c.s) THEN NumCell(NumberOf(c.s)) ELSE NaNCell

\* x / 100
Div100(v) == Reduced([neg |-> v.neg, n |-> v.n, e |-> v.e + 2])

RoundDigits == 4

\* x.round(4): to the nearest multiple of 10^-4, a tie going to the even one
Round4(v) ==
    IF v.e <= RoundDigits THEN v
    ELSE LET p == Pow10(v.e - RoundDigits)
             q == v.n \div p
             r == v.n % p
             up == 2 * r > p \/ (2 * r = p /\ q % 2 = 1)
         IN  Reduced([neg |-> v.neg, n |-> IF up THEN q + 1 ELSE q, e |-> RoundDigits])

\* int(x): the fraction is cut off
Truncated(v) == Reduced([neg |-> v.neg, n |-> v.n \div Pow10(v.e), e |-> 0])

\* series.astype(int): raises when the series holds NaN
AsTypeIntRaises(cells) == \E i \in 1..Len(cells) : cells[i].na
AsTypeInt(cells) == [i \in 1..Len(cells) |-> NumCell(Truncated(ValueOf(cells[i])))]

(***************************************************************************)
(* Normalization steps on tables of typed cells                            *)
(***************************************************************************)

L_Hash_of_Sales == <<"#", " ", "o", "f", " ", "S", "a", "l", "e", "s">>
L_Sales1 == <<"S", "a", "l", "e", "s", "1">>
T_Unnamed_Colon == <<"U", "n", "n", "a", "m", "e", "d", ":">>
T_TRREB_Areas == <<"T", "R", "R", "E", "B", " ", "A", "r", "e", "a", "s">>
T_All_TRREB_Areas == <<"A", "l", "l", " ", "T", "R", "R", "E", "B", " ", "A", "r", "e", "a", "s">>
T_TRREB == <<"T", "R", "R", "E", "B">>
T_TREB == <<"T", "R", "E", "B">>
L_parent_region == <<"p", "a", "r", "e", "n", "t", "_", "r", "e", "g", "i", "o", "n">>
L_region_type == <<"r", "e", "g", "i", "o", "n", "_", "t", "y", "p", "e">>
L_date_str == <<"d", "a", "t", "e", "_", "s", "t", "r">>
T_Total == <<"T", "o", "t", "a", "l">>
T_Municipality == <<"M", "u", "n", "i", "c", "i", "p", "a", "l", "i", "t", "y">>

\* the cells of the column at position k
ColumnAt(df, k) == [r \in 1..Len(df.rows) |-> df.rows[r][k]]

\* the table with the cells of every column replaced by F(label, cells)
MapColumns(df, F(_, _)) ==
    [columns |-> df.columns,
     rows |-> [r \in 1..Len(df.rows) |->
                  [k \in 1..Len(df.columns) |-> F(df.columns[k], ColumnAt(df, k))[r]]]]

\* df.rename(columns={old: new})
Rename(df, old, new) ==
    [columns |-> [k \in 1..Len(df.columns) |->
                     IF df.columns[k] = old THEN new ELSE df.columns[k]],
     rows |-> df.rows]

\* df[label] = cells: in place for a column the table has, appended otherwise
SetColumn(df, label, cells) ==
    IF HasCol(df, label)
    THEN [columns |-> df.columns,
          rows |-> [r \in 1..Len(df.rows) |->
                       [df.rows[r] EXCEPT ![ColIndex(df, label)] = cells[r]]]]
    ELSE [columns |-> Append(df.columns, label),
          rows |-> [r \in 1..Len(df.rows) |-> Append(df.rows[r], cells[r])]]

StartsWith(s, prefix) ==
    Len(prefix) <= Len(s) /\ SubSeq(s, 1, Len(prefix)) = prefix

\* s.replace(old, new)
RECURSIVE ReplaceSub(_, _, _)
ReplaceSub(s, old, new) ==
    IF Len(s) < Len(old) THEN s
    ELSE IF StartsWith(s, old)
         THEN new \o ReplaceSub(SubSeq(s, Len(old) + 1, Len(s)), old, new)
         ELSE <<Head(s)>> \o ReplaceSub(Tail(s), old, new)

\* services/normalizer: fix_numeric_regions, the regions written over a numeric
\* first column
FixRegions ==
    <<
    <<"T", "R", "R", "E", "B", " ", "T", "o", "t", "a", "l">>,
    <<"H", "a", "l", "t", "o", "n", " ", "R", "e", "g", "i", "o", "n">>,
    <<"B", "u", "r", "l", "i", "n", "g", "t", "o", "n">>,
    <<"H", "a", "l", "t", "o", "n", " ", "H", "i", "l", "l", "s">>,
    <<"M", "i", "l", "t", "o", "n">>,
    <<"O", "a", "k", "v", "i", "l", "l", "e">>,
    <<"P", "e", "e", "l", " ", "R", "e", "g", "i", "o", "n">>,
    <<"B", "r", "a", "m", "p", "t", "o", "n">>,
    <<"C", "a", "l", "e", "d", "o", "n">>,
    <<"M", "i", "s", "s", "i", "s", "s", "a", "u", "g", "a">>,
    <<"C", "i", "t", "y", " ", "o", "f", " ", "T", "o", "r", "o", "n", "t", "o">>,
    <<"T", "o", "r", "o", "n", "t", "o", " ", "W", "e", "s", "t">>,
    <<"T", "o", "r", "o", "n", "t", "o", " ", "C", "e", "n", "t", "r", "a", "l">>,
    <<"T", "o", "r", "o", "n", "t", "o", " ", "E", "a", "s", "t">>,
    <<"Y", "o", "r", "k", " ", "R", "e", "g", "i", "o", "n">>
    >>

fix_numeric_regions(df) ==
    IF FrameEmpty(df) \/ ~IsNumericDtype(ColumnAt(df, 1)) THEN df
    ELSE LET n_rows == Min(Len(FixRegions), Len(df.rows))
         IN  [columns |-> df.columns,
              rows |-> [r \in 1..n_rows |->
                           [df.rows[r] EXCEPT ![1] = Str(FixRegions[r])]]]

RegionTokens == {T_TRREB, T_TREB, R_Toronto, R_Halton, R_Peel}

MapRegion_unmapped(c) == c

\* the region name a cell stands for after its mapping (lines 127-131)
MapRegion(c) ==
    IF c.na \/ IsNum(c) THEN c ELSE Str(Get(REGION_NAME_MAPPING, c.s, c.s))

\* services/normalizer: standardize_region_names(df)
standardize_region_names(df) ==
    IF FrameEmpty(df) THEN df
    ELSE LET region0 == IF HasCol(df, L_Region) THEN L_Region ELSE df.columns[1]
             nan_names == HasCol(df, L_nan) /\ region0 # L_nan
                          /\ \E r \in 1..Len(df.rows) :
                                LET c == Column(df, L_nan)[r]
                                IN  ~c.na /\ \E t \in RegionTokens : Contains(AsStr(c), t)
             df1 == IF nan_names THEN Rename(df, L_nan, L_Region) ELSE df
             region_col == IF nan_names THEN L_Region ELSE region0
             cells == Column(df1, region_col)
             cleaned == IF IsObjectDtype(cells)
                        THEN [r \in 1..Len(cells) |-> CleanText(cells[r])]
                        ELSE cells
             mapped == [r \in 1..Len(cells) |-> MapRegion(cleaned[r])]
             named == [r \in 1..Len(cells) |->
                          IF IsNum(mapped[r]) THEN NullCell ELSE mapped[r]]
         IN  SetColumn(df1, region_col, named)

\* services/data_processor: standardize_region_names(df)
standardize_region_names_dp(df) ==
    IF FrameEmpty(df) THEN df
    ELSE SetColumn(df, df.columns[1],
                   [r \in 1..Len(df.rows) |->
                       LET c == df.rows[r][1]
                       IN  IF IsText(c) THEN Str(Get(REGION_NAME_MAPPING, c.s, c.s)) ELSE c])

\* standardize_column_names without the clean-up of lines 161-164
standardize_column_names_exact(df) ==
    IF FrameEmpty(df) THEN df
    ELSE [columns |-> [k \in 1..Len(df.columns) |->
                          Get(COLUMN_NAME_MAPPING, df.columns[k], df.columns[k])],
          rows |-> df.rows]

\* services/normalizer: standardize_column_names(df)
standardize_column_names(df) ==
    IF FrameEmpty(df) THEN df
    ELSE LET stripped == [k \in 1..Len(df.columns) |->
                             Strip(StripQuote(Strip(df.columns[k])))]
             old == IF InSeq(stripped, L_Hash_of_Sales) THEN L_Hash_of_Sales
                    ELSE L_Sales1
             sales == [k \in 1..Len(stripped) |->
                          IF stripped[k] = old THEN L_Sales ELSE stripped[k]]
         IN  [columns |-> [k \in 1..Len(sales) |->
                              Get(COLUMN_NAME_MAPPING, sales[k], sales[k])],
              rows |-> df.rows]

\* services/data_processor: standardize_column_names(df)
standardize_column_names_dp(df) ==
    IF FrameEmpty(df) THEN df
    ELSE [columns |-> [k \in 1..Len(df.columns) |->
                          Get(COLUMN_NAME_MAPPING, df.columns[k], df.columns[k])],
          rows |-> df.rows]

price_cols == {L_Average_Price, L_Median_Price, L_Dollar_Volume}
count_cols == {L_Sales, L_New_Listings, L_Active_Listings}
percentage_cols == {L_SNLR_Trend, L_Avg_SP_LP}
decimal_cols == {L_Months_Inventory, L_Avg_DOM, L_Avg_PDOM}

EachCell(cells, F(_)) == [r \in 1..Len(cells) |-> F(cells[r])]

\* services/normalizer, lines 204-220: one price column
ConvertPrice(cells) ==
    LET parsed == IF IsObjectDtype(cells)
                  THEN EachCell(cells, LAMBDA c :
                           to_numeric(Str(Remove(Remove(AsStr(c), "$"), ","))))
                  ELSE cells
    IN  IF AsTypeIntRaises(parsed) THEN parsed ELSE AsTypeInt(parsed)

\* services/normalizer, lines 223-237: one count column; when astype(int)
\* raises the column keeps the cleaned text assigned before it
ConvertCount(cells) ==
    IF IsObjectDtype(cells)
    THEN LET cleaned == EachCell(cells, LAMBDA c : Str(Remove(CleanText(c).s, ",")))
             parsed == EachCell(cleaned, to_numeric)
         IN  IF AsTypeIntRaises(parsed) THEN cleaned ELSE AsTypeInt(parsed)
    ELSE cells

\* x / 100 and (x / 100).round(4) of one numeric cell
Hundredth(c) == IF c.na THEN c ELSE NumCell(Div100(ValueOf(c)))
Rounded(c) == IF c.na THEN c ELSE NumCell(Round4(ValueOf(c)))

\* services/normalizer, lines 240-251: one percentage column
ConvertPercentage(cells) ==
    IF IsObjectDtype(cells)
    THEN EachCell(cells, LAMBDA c :
             Rounded(Hundredth(to_numeric(Str(Remove(CleanText(c).s, "%"))))))
    ELSE cells

\* services/normalizer, lines 254-263: one decimal column
ConvertDecimal(cells) ==
    IF IsObjectDtype(cells)
    THEN EachCell(cells, LAMBDA c : to_numeric(CleanText(c)))
    ELSE cells

ConvertColumn(label, cells) ==
    IF label \in price_cols THEN ConvertPrice(cells)
    ELSE IF label \in count_cols THEN ConvertCount(cells)
    ELSE IF label \in percentage_cols THEN ConvertPercentage(cells)
    ELSE IF label \in decimal_cols THEN ConvertDecimal(cells)
    ELSE cells

\* services/normalizer: convert_numeric_columns(df)
convert_numeric_columns(df) ==
    IF FrameEmpty(df) THEN df ELSE MapColumns(df, ConvertColumn)

\* v > 1.5 and v >= 0 for a number v
Above1_5(v) == ~v.neg /\ 2 * v.n > 3 * Pow10(v.e)
NonNegative(v) == ~v.neg

\* services/data_processor, lines 128-144: one percentage column; max() and
\* min() skip NaN
ConvertPercentageDP(cells) ==
    IF IsObjectDtype(cells)
    THEN EachCell(cells, LAMBDA c : Hundredth(to_numeric(Str(Remove(AsStr(c), "%")))))
    ELSE LET nums == SelectSeq(cells, LAMBDA c : ~c.na)
         IN  IF /\ \E i \in 1..Len(nums) : Above1_5(ValueOf(nums[i]))
                /\ \A i \in 1..Len(nums) : NonNegative(ValueOf(nums[i]))
             THEN EachCell(cells, Hundredth)
             ELSE cells

ConvertColumnDP(label, cells) ==
    IF label \in price_cols /\ IsObjectDtype(cells)
    THEN EachCell(cells, LAMBDA c : to_numeric(Str(Remove(Remove(AsStr(c), "$"), ","))))
    ELSE IF label \in count_cols /\ IsObjectDtype(cells)
    THEN EachCell(cells, LAMBDA c : to_numeric(Str(Remove(AsStr(c), ","))))
    ELSE IF label \in percentage_cols THEN ConvertPercentageDP(cells)
    ELSE IF label \in decimal_cols /\ IsObjectDtype(cells)
    THEN EachCell(cells, LAMBDA c : IF IsNum(c) THEN c ELSE to_numeric(c))
    ELSE cells

\* services/data_processor: convert_numeric_columns(df)
convert_numeric_columns_dp(df) ==
    IF FrameEmpty(df) THEN df ELSE MapColumns(df, ConvertColumnDP)

\* region_to_parent.get(x, "None")
ParentOf(c) ==
    IF IsText(c) /\ \E i \in 1..Len(REGION_HIERARCHY) : InSeq(REGION_HIERARCHY[i][2], c.s)
    THEN REGION_HIERARCHY[CHOOSE i \in 1..Len(REGION_HIERARCHY) :
                              InSeq(REGION_HIERARCHY[i][2], c.s)][1]
    ELSE T_None

\* every key of the hierarchy typed alike
get_region_type_flat(c) ==
    IF IsText(c) /\ HasKey(REGION_HIERARCHY, c.s) THEN L_Region ELSE T_Municipality

\* get_region_type(region)
get_region_type(c) ==
    IF IsText(c) /\ c.s = R_TRREB_Total THEN T_Total
    ELSE IF IsText(c) /\ HasKey(REGION_HIERARCHY, c.s) THEN L_Region
    ELSE T_Municipality

\* add_hierarchy_columns(df), the same in both modules: the region column is
\* the first column
add_hierarchy_columns(df) ==
    IF FrameEmpty(df) THEN df
    ELSE LET regions == ColumnAt(df, 1)
             parents == EachCell(regions, LAMBDA c : Str(ParentOf(c)))
             types == EachCell(regions, LAMBDA c : Str(get_region_type(c)))
         IN  SetColumn(SetColumn(df, L_parent_region, parents), L_region_type, types)

\* the result of a call: the table returned, or an exception
Returned(df) == [raised |-> FALSE, df |-> df]
Raised == [raised |-> TRUE, df |-> NoFrame]

\* lines 513-515: every object column becomes its stripped text, in the
\* caller's table
CleanObjectColumns(df) ==
    MapColumns(df, LAMBDA label, cells :
        IF IsObjectDtype(cells) THEN EachCell(cells, CleanText) ELSE cells)

\* lines 518-527: unnamed columns that hold nothing are dropped
IsBlankColumn(cells) ==
    \/ \A r \in 1..Len(cells) : cells[r].na
    \/ \A r \in 1..Len(cells) : Strip(AsStr(cells[r])) = <<>>

DropBlankUnnamed(df) ==
    SelectColumns(df, SelectSeq(df.columns, LAMBDA col :
        ~(StartsWith(col, T_Unnamed_Colon) /\ IsBlankColumn(Column(df, col)))))

\* lines 530-535: the 'nan' column, else the first unnamed column, becomes 'Region'
NameRegionColumn(df) ==
    IF HasCol(df, L_nan) /\ ~HasCol(df, L_Region) THEN Rename(df, L_nan, L_Region)
    ELSE IF HasCol(df, L_Unnamed_0) /\ ~HasCol(df, L_Region)
         THEN Rename(df, L_Unnamed_0, L_Region)
         ELSE df

\* lines 543-551
RenameAllAreas(df) ==
    IF /\ df.columns # <<>>
       /\ df.columns[1] = L_Unnamed_0
       /\ \E r \in 1..Len(df.rows) : Contains(AsStr(df.rows[r][1]), T_TRREB_Areas)
    THEN SetColumn(df, L_Unnamed_0,
                   EachCell(ColumnAt(df, 1), LAMBDA c :
                       Str(ReplaceSub(AsStr(c), T_All_TRREB_Areas, R_TRREB_Total))))
    ELSE df

\* lines 554-563: an 'Unnamed: 0' column left over names regions or is dropped
UnnamedNamesRegions(df) ==
    \E r \in 1..Len(df.rows) :
       \E t \in RegionTokens : Contains(AsStr(Column(df, L_Unnamed_0)[r]), t)

\* lines 584-614: the template put in place of a table whose columns are all numeric
TemplateRegions ==
    <<
    <<"T", "R", "R", "E", "B", " ", "T", "o", "t", "a", "l">>,
    <<"H", "a", "l", "t", "o", "n", " ", "R", "e", "g", "i", "o", "n">>,
    <<"B", "u", "r", "l", "i", "n", "g", "t", "o", "n">>,
    <<"H", "a", "l", "t", "o", "n", " ", "H", "i", "l", "l", "s">>,
    <<"M", "i", "l", "t", "o", "n">>,
    <<"O", "a", "k", "v", "i", "l", "l", "e">>,
    <<"P", "e", "e", "l", " ", "R", "e", "g", "i", "o", "n">>,
    <<"B", "r", "a", "m", "p", "t", "o", "n">>,
    <<"C", "a", "l", "e", "d", "o", "n">>,
    <<"M", "i", "s", "s", "i", "s", "s", "a", "u", "g", "a">>,
    <<"C", "i", "t", "y", " ", "o", "f", " ", "T", "o", "r", "o", "n", "t", "o">>
    >>

TemplateFrame(columns) ==
    [columns |-> <<L_Region>> \o columns,
     rows |-> [r \in 1..Len(TemplateRegions) |->
                  <<Str(TemplateRegions[r])>> \o [k \in 1..Len(columns) |-> NullCell]]]

AllNumeric(df) ==
    df.columns # <<>> /\ \A k \in 1..Len(df.columns) : IsNumericDtype(ColumnAt(df, k))

\* lines 578-627, on a table whose labels are distinct
NormalizeSteps(df, date, ptype) ==
    LET dated == date # <<>>
        typed == convert_numeric_columns(
                     standardize_column_names(standardize_region_names(df)))
        filled == IF AllNumeric(typed) /\ dated
                  THEN TemplateFrame(
                           get_expected_columns(ptype, determine_period(date)))
                  ELSE typed
        ranked == add_hierarchy_columns(filled)
    IN  IF dated
        THEN ensure_column_consistency(
                 ranked, get_expected_columns(ptype, determine_period(date)))
        ELSE ranked

\* services/normalizer: normalize_dataset(df, date_str, property_type), the
\* date being empty for None.  A table left without a column raises at df.iloc[:, 0]
\* (line 539); a leftover 'Unnamed: 0' column naming regions is renamed to a
\* second 'Region' column (line 560), on which standardize_region_names raises.
normalize_dataset(df, date, ptype) ==
    IF FrameEmpty(df) THEN Returned(df)
    ELSE LET named == NameRegionColumn(DropBlankUnnamed(CleanObjectColumns(df)))
         IN  IF named.columns = <<>> THEN Raised
             ELSE LET fixed == RenameAllAreas(
                                   IF IsNumericDtype(ColumnAt(named, 1))
                                   THEN fix_numeric_regions(named)
                                   ELSE named)
                  IN  IF ~HasCol(fixed, L_Unnamed_0)
                      THEN Returned(NormalizeSteps(fixed, date, ptype))
                      ELSE IF UnnamedNamesRegions(fixed) THEN Raised
                      ELSE Returned(NormalizeSteps(DropColumn(fixed, L_Unnamed_0),
                                                   date, ptype))

\* services/data_processor: normalize_dataset(df, date_str, property_type)
normalize_dataset_dp(df, date, ptype) ==
    IF FrameEmpty(df) THEN Returned(df)
    ELSE LET ranked == add_hierarchy_columns(convert_numeric_columns_dp(
                           standardize_column_names_dp(standardize_region_names_dp(df))))
         IN  Returned(IF date # <<>>
                      THEN ensure_column_consistency_dp(
                               ranked,
                               get_expected_columns(ptype,
                                                    determine_period(date)))
                      ELSE ranked)

\* The caller's table after normalize_dataset(df, ...): lines 513-515 assign
\* the cleaned columns to the table passed in; lines 545-551 do so as well
\* when df still names that table, that is when no column was dropped
\* (line 527), none renamed (lines 530-535) and the first column is not
\* numeric (line 540)
normalize_dataset_caller(df) ==
    IF FrameEmpty(df) THEN df
    ELSE LET cleaned == CleanObjectColumns(df)
             kept == DropBlankUnnamed(cleaned)
             rebound == \/ kept # cleaned
                        \/ NameRegionColumn(kept) # kept
                        \/ kept.columns = <<>>
                        \/ IsNumericDtype(ColumnAt(kept, 1))
         IN  IF rebound THEN cleaned ELSE RenameAllAreas(cleaned)

(***************************************************************************)
(* Table cleaning of the layout-based extractor                            *)
(***************************************************************************)

R_Halton_Region == <<"H", "a", "l", "t", "o", "n", " ", "R", "e", "g", "i", "o", "n">>
R_Peel_Region == <<"P", "e", "e", "l", " ", "R", "e", "g", "i", "o", "n">>
R_City_of_Toronto == <<"C", "i", "t", "y", " ", "o", "f", " ", "T", "o", "r", "o", "n", "t", "o">>
R_York_Region == <<"Y", "o", "r", "k", " ", "R", "e", "g", "i", "o", "n">>
R_Durham_Region == <<"D", "u", "r", "h", "a", "m", " ", "R", "e", "g", "i", "o", "n">>

key_municipalities ==
    <<R_TREB_Total, R_TRREB_Total, R_Halton_Region, R_Peel_Region,
      R_City_of_Toronto, R_York_Region, R_Durham_Region>>

\* " ".join(series.astype(str).values)
RECURSIVE JoinValues(_)
JoinValues(cells) ==
    IF cells = <<>> THEN <<>>
    ELSE IF Len(cells) = 1 THEN AsStr(cells[1])
    ELSE AsStr(cells[1]) \o <<" ">> \o JoinValues(Tail(cells))

\* any(muni in " ".join(values) for muni in key_municipalities)
HasMunicipality(cells) ==
    \E i \in 1..Len(key_municipalities) : Contains(JoinValues(cells), key_municipalities[i])

ScanColumns == 3
ScanRows == 5

\* a sequence without its element at position k
RemoveAt(seq, k) == SubSeq(seq, 1, k - 1) \o SubSeq(seq, k + 1, Len(seq))

\* the column at position k exchanged with the first one
identify_municipalities_move_swapped(df, k) ==
    LET swap(seq) == [j \in 1..Len(seq) |->
                         IF j = 1 THEN seq[k] ELSE IF j = k THEN seq[1] ELSE seq[j]]
    IN  [columns |-> swap(df.columns),
         rows |-> [r \in 1..Len(df.rows) |-> swap(df.rows[r])]]

\* lines 230-232: cols.insert(0, cols.pop(col)); df[cols]
identify_municipalities_move(df, k) ==
    SelectColumns(df, <<df.columns[k]>> \o RemoveAt(df.columns, k))

\* the label a cell gives when a row becomes the header; a null cell gives
\* the missing label, written as the empty one
HeaderLabel(c) == IF c.na THEN <<>> ELSE c.s

\* lines 239-241: the row at position r becomes the header, the rows up to
\* it are dropped
identify_municipalities_header(df, r) ==
    [columns |-> [k \in 1..Len(df.columns) |-> HeaderLabel(df.rows[r][k])],
     rows |-> SubSeq(df.rows, r + 1, Len(df.rows))]

\* Pre2020TableExtractor._identify_municipalities(df)
identify_municipalities(df) ==
    LET scanned_cols == {k \in 2..Min(Len(df.columns), ScanColumns) :
                            HasMunicipality(ColumnAt(df, k))}
        scanned_rows == {r \in 1..Min(Len(df.rows), ScanRows) :
                            HasMunicipality(df.rows[r])}
    IN  IF FrameEmpty(df) THEN df
        ELSE IF HasMunicipality(ColumnAt(df, 1)) THEN df
        ELSE IF scanned_cols # {}
        THEN identify_municipalities_move(
                 df, CHOOSE k \in scanned_cols : \A j \in scanned_cols : k <= j)
        ELSE IF scanned_rows # {}
        THEN identify_municipalities_header(
                 df, CHOOSE r \in scanned_rows : \A j \in scanned_rows : r <= j)
        ELSE df

\* s.lower()
Lower(s) == [i \in 1..Len(s) |-> LowerChar(s[i])]

\* re.sub(r"\s+", " ", s): every run of white space becomes one space
RECURSIVE CollapseSpaces(_)
CollapseSpaces(s) ==
    IF s = <<>> THEN <<>>
    ELSE IF IsSpace(Head(s))
         THEN <<" ">> \o CollapseSpaces(LStrip(s))
         ELSE <<Head(s)>> \o CollapseSpaces(Tail(s))

\* the rows of df that Keep holds for, in their order
KeepRows(df, Keep(_)) == [columns |-> df.columns, rows |-> SelectSeq(df.rows, Keep)]

\* line 64: df.dropna(how="all")
DropEmptyRows(df) ==
    KeepRows(df, LAMBDA row : \E k \in 1..Len(row) : ~row[k].na)

T_sales == <<"s", "a", "l", "e", "s">>
T_average_price == <<"a", "v", "e", "r", "a", "g", "e", " ", "p", "r", "i", "c", "e">>
T_new_listings == <<"n", "e", "w", " ", "l", "i", "s", "t", "i", "n", "g", "s">>
T_active == <<"a", "c", "t", "i", "v", "e">>
T_Source == <<"S", "o", "u", "r", "c", "e", ":">>
T_Notes == <<"N", "o", "t", "e", "s", ":">>
T_Copyright == <<"C", "o", "p", "y", "r", "i", "g", "h", "t">>
T_c_20 == <<"©", " ", "2", "0">>
T_Market_Watch == <<"M", "a", "r", "k", "e", "t", " ", "W", "a", "t", "c", "h">>
T_SUMMARY_OF == <<"S", "U", "M", "M", "A", "R", "Y", " ", "O", "F">>
L_Avg_Dot_SP_LP == <<"A", "v", "g", ".", " ", "S", "P", "/", "L", "P">>
L_SNLR_Trend_Paren == <<"S", "N", "L", "R", " ", "(", "T", "r", "e", "n", "d", ")">>

L_Avg_Dot_DOM == <<"A", "v", "g", ".", " ", "D", "O", "M">>
L_Price == <<"P", "r", "i", "c", "e">>
T_Volume == <<"V", "o", "l", "u", "m", "e">>

header_words == <<T_sales, T_average_price, T_new_listings, T_active>>

\* lines 68-72: the first row reads like a header
IsHeaderRow(row) ==
    \E i \in 1..Len(header_words) :
        Contains(Lower(JoinValues(row)), Lower(header_words[i]))

\* lines 74-83: the first row becomes the header, its cells as stripped text
\* with white space collapsed
PromoteHeader(df) ==
    [columns |-> [k \in 1..Len(df.columns) |->
                     CollapseSpaces(
                         Remove([i \in 1..Len(Strip(AsStr(df.rows[1][k]))) |->
                                    IF Strip(AsStr(df.rows[1][k]))[i] = "\n" THEN " "
                                    ELSE Strip(AsStr(df.rows[1][k]))[i]],
                                "\r"))],
     rows |-> Tail(df.rows)]

unwanted_patterns == <<T_Source, T_Notes, T_Copyright, T_c_20, T_Market_Watch>>

\* the column the row filters read: 'Municipality', else the first one
CheckedColumn(df) ==
    IF HasCol(df, T_Municipality) THEN ColIndex(df, T_Municipality) ELSE 1

\* lines 86-93: rows whose checked cell contains an unwanted pattern are removed
DropUnwanted(df) ==
    KeepRows(df, LAMBDA row :
        \A i \in 1..Len(unwanted_patterns) :
            ~Contains(AsStr(row[CheckedColumn(df)]), unwanted_patterns[i]))

layout_numeric_cols ==
    <<L_Sales, L_Dollar_Volume, L_Average_Price, L_Median_Price, L_New_Listings,
      L_Active_Listings, L_Avg_Dot_DOM>>

pct_cols == <<L_Avg_Dot_SP_LP, L_SNLR_Trend_Paren>>

\* lines 106-127: the cells of a named column as numbers, what is no number
\* becoming NaN; '$' and ',' are removed only under a Price or Volume label
ConvertLayoutColumn(label, cells) ==
    IF InSeq(layout_numeric_cols, label)
    THEN IF Contains(label, L_Price) \/ Contains(label, T_Volume)
         THEN [r \in 1..Len(cells) |->
                  to_numeric(Str(Remove(Remove(AsStr(cells[r]), "$"), ",")))]
         ELSE [r \in 1..Len(cells) |-> to_numeric(cells[r])]
    ELSE IF InSeq(pct_cols, label)
    THEN [r \in 1..Len(cells) |-> to_numeric(Str(Remove(AsStr(cells[r]), "%")))]
    ELSE cells

ConvertLayoutColumns(df) == MapColumns(df, ConvertLayoutColumn)

\* lines 130-131: a missing or empty first label becomes 'Municipality'
NameFirstColumn(df) ==
    IF df.columns[1] = <<>>
    THEN [columns |-> <<T_Municipality>> \o Tail(df.columns), rows |-> df.rows]
    ELSE df

\* line 134: df.dropna(axis=1, how="all")
DropEmptyColumns(df) ==
    SelectColumns(df, SelectSeq(df.columns, LAMBDA col :
        \E r \in 1..Len(df.rows) : ~Column(df, col)[r].na))

footnote_patterns == <<T_SUMMARY_OF, T_Copyright, T_Source, T_Notes, T_c_20>>

\* re.match(r"^\d+$", s)
IsNumberRow(c) == AsStr(c) # <<>> /\ IsDigits(AsStr(c))

\* lines 137-147: under a 'Municipality' label, rows that are a number or a
\* footnote are removed
DropFootnotes(df) ==
    IF HasCol(df, T_Municipality)
    THEN KeepRows(df, LAMBDA row :
             LET c == row[ColIndex(df, T_Municipality)]
             IN  /\ ~IsNumberRow(c)
                 /\ \A i \in 1..Len(footnote_patterns) :
                        ~Contains(Lower(AsStr(c)), Lower(footnote_patterns[i])))
    ELSE df

\* line 150: rows whose first cell is a number are removed
DropNumberRows(df) == KeepRows(df, LAMBDA row : ~IsNumberRow(row[1]))

\* Pre2020TableExtractor._standardize_column_names(df)
Pre2020_standardize_column_names(df) ==
    IF FrameEmpty(df) THEN df
    ELSE [columns |-> [k \in 1..Len(df.columns) |->
                          Get(COLUMN_NAME_MAPPING, df.columns[k], df.columns[k])],
          rows |-> df.rows]

\* Pre2020TableExtractor._standardize_region_names(df)
Pre2020_standardize_region_names(df) ==
    IF FrameEmpty(df) THEN df
    ELSE [columns |-> df.columns,
          rows |-> [r \in 1..Len(df.rows) |->
                       [df.rows[r] EXCEPT ![1] =
                           IF IsText(@) THEN Str(Get(REGION_NAME_MAPPING, @.s, @.s))
                           ELSE @]]]

\* Pre2020TableExtractor.clean_table(df): the cleaned table, or the IndexError
\* of df.iloc[:, 0] (line 150) on a table left without a column
Pre2020_clean_table(df) ==
    IF FrameEmpty(df) THEN Returned(NoFrame)
    ELSE LET present == DropEmptyRows(identify_municipalities(df))
             headed == IF present.rows # <<>> /\ IsHeaderRow(present.rows[1])
                       THEN PromoteHeader(present)
                       ELSE present
             typed == ConvertLayoutColumns(DropUnwanted(headed))
             kept == DropFootnotes(DropEmptyColumns(NameFirstColumn(typed)))
         IN  IF kept.columns = <<>> THEN Raised
             ELSE Returned(Pre2020_standardize_region_names(
                               Pre2020_standardize_column_names(DropNumberRows(kept))))

(***************************************************************************)
(* Names of the report files (fetcher/downloader.py) and the date read     *)
(* back from them (utils/paths.py)                                         *)
(***************************************************************************)

T_mw == <<"m", "w">>
T_dot_pdf == <<".", "p", "d", "f">>

\* f"{n:02d}" for 0 <= n
Pad2(n) == ZFill2(IntToStr(n))

\* download_file, lines 58-64: f"mw{year_short:02d}{month:02d}.pdf" with
\* year_short = year % 100
ReportFileName(y, m) == T_mw \o Pad2(y % 100) \o Pad2(m) \o T_dot_pdf

\* the largest two-digit year read as a year of this century (line 29)
CenturyPivot == 25

\* re.match(r"mw(\d{2})(\d{2})\.pdf", filename.lower())
MatchesMw(filename) ==
    /\ Len(filename) >= 10
    /\ Lower(SubSeq(filename, 1, 2)) = T_mw
    /\ IsDigits(SubSeq(filename, 3, 6))
    /\ Lower(SubSeq(filename, 7, 10)) = T_dot_pdf

\* re.search(r"(\d{4})[-_]?(\d{1,2})", filename): the first place where four
\* digits, an optional '-' or '_' and one or two digits follow each other
YearMonthAt(filename, i) ==
    LET sep == IF i + 4 <= Len(filename) /\ filename[i + 4] \in {"-", "_"} THEN 1 ELSE 0
        j == i + 4 + sep
        two == j + 1 <= Len(filename) /\ IsDigits(SubSeq(filename, j, j + 1))
        one == j <= Len(filename) /\ IsDigits(SubSeq(filename, j, j))
        plain == i + 4 <= Len(filename) /\ IsDigits(SubSeq(filename, i + 4, i + 4))
    IN  IF i + 3 > Len(filename) \/ ~IsDigits(SubSeq(filename, i, i + 3)) THEN <<>>
        ELSE IF two THEN SubSeq(filename, i, i + 3) \o <<"-">> \o SubSeq(filename, j, j + 1)
        ELSE IF one THEN SubSeq(filename, i, i + 3) \o <<"-">> \o ZFill2(SubSeq(filename, j, j))
        ELSE IF sep = 1 /\ plain
             THEN SubSeq(filename, i, i + 3) \o <<"-">> \o ZFill2(SubSeq(filename, i + 4, i + 4))
        ELSE <<>>

\* extract_date_from_filename(filename), the empty text for None; of the
\* other patterns (lines 36-57) the one of a year followed by a month, a
\* name without digits giving None
extract_date_from_filename(filename) ==
    IF MatchesMw(filename)
    THEN LET yy == SubSeq(filename, 3, 4)
             mm == SubSeq(filename, 5, 6)
         IN  (IF DigitsToInt(yy) <= CenturyPivot THEN <<"2", "0">> ELSE <<"1", "9">>)
             \o yy \o <<"-">> \o mm
    ELSE LET found == {i \in 1..Len(filename) : YearMonthAt(filename, i) # <<>>}
         IN  IF found = {} THEN <<>>
             ELSE YearMonthAt(filename, CHOOSE i \in found : \A k \in found : i <= k)

\* pdf_path.stem of a name with a suffix
Stem(filename) ==
    LET dots == {i \in 1..Len(filename) : filename[i] = "."}
    IN  IF dots = {} THEN filename
        ELSE SubSeq(filename, 1, (CHOOSE i \in dots : \A k \in dots : k <= i) - 1)

(***************************************************************************)
(* The ValidationResult object (data_processor/validation.py, lines 21-66) *)
(***************************************************************************)

\* ValidationResult(): is_valid = True by default, issues = []
ValidationResult == [is_valid |-> TRUE, issues |-> <<>>]

\* add_issue putting the new issue first
add_issue_first(result, issue) ==
    [is_valid |-> FALSE, issues |-> <<issue>> \o result.issues]

\* result.add_issue(issue), lines 34-42
add_issue(result, issue) ==
    [is_valid |-> FALSE, issues |-> Append(result.issues, issue)]

(***************************************************************************)
(* The normalize command (cli/commands/normalize.py): the extracted CSV    *)
(* files of a property type are read back, normalized one by one,          *)
(* combined, normalized again, sorted and filtered.                        *)
(***************************************************************************)

\* the texts pd.read_csv takes for a missing value
na_values ==
    {<<>>,
     <<"#", "N", "/", "A">>,
     <<"#", "N", "/", "A", " ", "N", "/", "A">>,
     <<"#", "N", "A">>,
     <<"-", "1", ".", "#", "I", "N", "D">>,
     <<"-", "1", ".", "#", "Q", "N", "A", "N">>,
     <<"-", "N", "a", "N">>,
     <<"-", "n", "a", "n">>,
     <<"1", ".", "#", "I", "N", "D">>,
     <<"1", ".", "#", "Q", "N", "A", "N">>,
     <<"<", "N", "A", ">">>,
     <<"N", "/", "A">>,
     <<"N", "A">>,
     <<"N", "U", "L", "L">>,
     <<"N", "a", "N">>,
     <<"N", "o", "n", "e">>,
     <<"n", "/", "a">>,
     <<"n", "a", "n">>,
     <<"n", "u", "l", "l">>}

\* the text df.to_csv writes for a cell
CsvText(c) == IF c.na THEN <<>> ELSE c.s

\* the label pd.read_csv gives column k: 'Unnamed: k-1' for an empty one,
\* a repeated one numbered
CsvLabel(columns, k) ==
    LET before == Cardinality({j \in 1..(k - 1) : columns[j] = columns[k]})
    IN  IF columns[k] = <<>> THEN T_Unnamed_Colon \o <<" ">> \o IntToStr(k - 1)
        ELSE IF before > 0 THEN columns[k] \o <<".">> \o IntToStr(before)
        ELSE columns[k]

\* the cells pd.read_csv infers for the texts of one column: numbers where
\* every text present is a number, text otherwise
CsvColumn(texts) ==
    LET missing(t) == t \in na_values
        numeric == \A r \in 1..Len(texts) : missing(texts[r]) \/ IsNumberText(texts[r])
    IN  [r \in 1..Len(texts) |->
            IF missing(texts[r]) THEN NaNCell
            ELSE IF numeric THEN NumCell(NumberOf(texts[r]))
            ELSE Str(texts[r])]

\* pd.read_csv of the file df.to_csv(index=False) wrote (lines 86-113); a file
\* without a column raises EmptyDataError
read_csv(df) ==
    IF df.columns = <<>> THEN Raised
    ELSE Returned(
             [columns |-> [k \in 1..Len(df.columns) |-> CsvLabel(df.columns, k)],
              rows |-> [r \in 1..Len(df.rows) |->
                           [k \in 1..Len(df.columns) |->
                               CsvColumn([q \in 1..Len(df.rows) |->
                                             CsvText(df.rows[q][k])])[r]]]])

\* lines 84-125, one file: read, stamped with the date of its name and
\* normalized; an exception leaves the file out
NormalizeFile(file, date, ptype) ==
    LET read == read_csv(file)
    IN  IF read.raised THEN Raised
        ELSE normalize_dataset(
                 SetColumn(read.df, L_date_str,
                           [r \in 1..Len(read.df.rows) |-> Str(date)]),
                 date, ptype)

\* the labels of a list of tables in the order of their first appearance
RECURSIVE UnionColumns(_)
UnionColumns(frames) ==
    IF frames = <<>> THEN <<>>
    ELSE LET rest == UnionColumns(SubSeq(frames, 1, Len(frames) - 1))
             last == frames[Len(frames)]
         IN  rest \o SelectSeq(last.columns, LAMBDA c : ~InSeq(rest, c))

\* the rows of df under the labels `columns`, NaN where df lacks one
Reindexed(df, columns) ==
    [r \in 1..Len(df.rows) |->
        [k \in 1..Len(columns) |->
            IF HasCol(df, columns[k]) THEN df.rows[r][ColIndex(df, columns[k])]
            ELSE NaNCell]]

RECURSIVE ConcatRows(_, _)
ConcatRows(frames, columns) ==
    IF frames = <<>> THEN <<>>
    ELSE Reindexed(Head(frames), columns) \o ConcatRows(Tail(frames), columns)

\* line 132: pd.concat(all_data, ignore_index=True) of tables whose labels
\* are distinct
Concat(frames) ==
    [columns |-> UnionColumns(frames),
     rows |-> ConcatRows(frames, UnionColumns(frames))]

\* lines 138-150: a column whose stripped label was seen before is dropped,
\* unless its label is the first column's
DropDuplicateColumns(df) ==
    LET dup(k) == /\ \E j \in 1..(k - 1) : Strip(df.columns[j]) = Strip(df.columns[k])
                  /\ df.columns[k] # df.columns[1]
        dropped == {df.columns[k] : k \in {j \in 1..Len(df.columns) : dup(j)}}
    IN  SelectColumns(df, SelectSeq(df.columns, LAMBDA c : c \notin dropped))

T_Unnamed_12 == <<"U", "n", "n", "a", "m", "e", "d", ":", " ", "1", "2">>
T_Unnamed_13 == <<"U", "n", "n", "a", "m", "e", "d", ":", " ", "1", "3">>
T_Unnamed_14 == <<"U", "n", "n", "a", "m", "e", "d", ":", " ", "1", "4">>

\* lines 174-183
DropSpecificColumns(df, ptype) ==
    IF ptype = "all_home_types"
    THEN SelectColumns(df, SelectSeq(df.columns, LAMBDA c :
             c \notin {T_Unnamed_12, T_Unnamed_13, T_Unnamed_14}))
    ELSE df

\* lines 186-195: region_type_order of a region_type cell, 3 for any other
region_type_order(c) ==
    IF IsText(c) /\ c.s = T_Total THEN 0
    ELSE IF IsText(c) /\ c.s = L_Region THEN 1
    ELSE IF IsText(c) /\ c.s = T_Municipality THEN 2
    ELSE 3

sort_by == <<L_parent_region, L_Region, L_date_str>>

\* the sort key of a row: _sort_order, parent_region, Region, date_str
SortKey(df, row) ==
    <<region_type_order(row[ColIndex(df, L_region_type)])>>
        \o [i \in 1..Len(sort_by) |-> row[ColIndex(df, sort_by[i])]]

\* the order of two cells of a text column, a missing one last
CellLess(a, b) == ~a.na /\ (b.na \/ StrLess(AsStr(a), AsStr(b)))
CellSame(a, b) == (a.na /\ b.na) \/ (~a.na /\ ~b.na /\ AsStr(a) = AsStr(b))

KeyLess(x, y) ==
    \/ x[1] < y[1]
    \/ /\ x[1] = y[1]
       /\ \E i \in 2..4 : /\ CellLess(x[i], y[i])
                          /\ \A j \in 2..(i - 1) : CellSame(x[j], y[j])

\* rows with row put behind the last row whose key is not greater
RECURSIVE InsertRow(_, _, _)
InsertRow(df, rows, row) ==
    IF rows = <<>> THEN <<row>>
    ELSE IF KeyLess(SortKey(df, row), SortKey(df, rows[Len(rows)]))
         THEN Append(InsertRow(df, SubSeq(rows, 1, Len(rows) - 1), row),
                     rows[Len(rows)])
         ELSE Append(rows, row)

RECURSIVE SortedRows(_, _)
SortedRows(df, rows) ==
    IF rows = <<>> THEN <<>>
    ELSE InsertRow(df, SortedRows(df, SubSeq(rows, 1, Len(rows) - 1)), rows[Len(rows)])

\* the rows left as they were
sort_values_kept(df) == df

\* lines 200-202: df.sort_values(by=["_sort_order", "parent_region", "Region",
\* "date_str"]), rows of one key staying in their order
sort_values(df) == [columns |-> df.columns, rows |-> SortedRows(df, df.rows)]

\* re.match(r"^\d+(\.\d+)?$", s)
IsPlainNumber(s) ==
    \/ s # <<>> /\ IsDigits(s)
    \/ \E i \in 2..(Len(s) - 1) :
          /\ s[i] = "."
          /\ IsDigits(SubSeq(s, 1, i - 1))
          /\ IsDigits(SubSeq(s, i + 1, Len(s)))

\* lines 212-220: the rows that name a region
valid_regions(df) ==
    KeepRows(df, LAMBDA row :
        /\ region_type_order(row[ColIndex(df, L_region_type)]) < 3
        /\ ~row[ColIndex(df, L_Region)].na
        /\ ~IsPlainNumber(AsStr(row[ColIndex(df, L_Region)])))

\* the files normalize_type reads: all of them, or those whose name holds `date`
SelectedFiles(files, names, date) ==
    {i \in 1..Len(files) : files[i].exists /\ (date = <<>> \/ Contains(names[i], date))}

\* lines 83-125: for each file what reading and normalizing it gave; a file
\* not selected counts like one that raised, it adds nothing to all_data
NormalizedFiles(files, names, date, ptype) ==
    [i \in 1..Len(files) |->
        IF i \in SelectedFiles(files, names, date)
        THEN NormalizeFile(files[i].df, names[i], ptype)
        ELSE Raised]

\* all_data: the tables of the files read and normalized without an
\* exception, in the order of the file names
all_data(frames) ==
    LET kept == SelectSeq(frames, LAMBDA f : ~f.raised)
    IN  [i \in 1..Len(kept) |-> kept[i].df]

\* what normalize_type returned: no file written, or the table saved
NoOutput == [raised |-> FALSE, saved |-> FALSE, df |-> NoFrame]
Saved(df) == [raised |-> FALSE, saved |-> TRUE, df |-> df]
Failed == [raised |-> TRUE, saved |-> FALSE, df |-> NoFrame]

\* lines 127-150: combined_df, with `saved` false where normalize_type
\* returns None for want of data
Combined(frames) ==
    IF all_data(frames) = <<>> \/ FrameEmpty(Concat(all_data(frames))) THEN NoOutput
    ELSE Saved(DropDuplicateColumns(Concat(all_data(frames))))

\* lines 163-170: the final normalization pass on the combined data
SecondPass(combined, date, ptype) ==
    IF combined.saved THEN normalize_dataset(combined.df, date, ptype)
    ELSE Returned(NoFrame)

\* lines 172-226 of normalize_type(property_type, validate=False, date): the
\* normalized table is sorted, filtered and saved.  A missing sort column
\* raises KeyError.
SortAndSave(combined, second, ptype) ==
    IF ~combined.saved THEN NoOutput
    ELSE IF second.raised THEN Failed
    ELSE IF \E c \in {L_region_type, L_parent_region, L_Region, L_date_str} :
                ~HasCol(second.df, c)
    THEN Failed
    ELSE Saved(valid_regions(sort_values(DropSpecificColumns(second.df, ptype))))

(***************************************************************************)
(* Validation (services/data_processor/validation.py).  A ValidationResult *)
(* is known by its list of issues; an issue is [check, what, names, n]:    *)
(* the check that raised it, its kind, the labels it names and the count   *)
(* it states.  The metric cells of a validated table hold whole numbers.   *)
(***************************************************************************)

L_date == <<"d", "a", "t", "e">>

Issue(check, what, names, n) == [check |-> check, what |-> what, names |-> names, n |-> n]

\* a call's outcome: the issues of the ValidationResult returned, or an
\* exception raised
Result(issues) == [raised |-> FALSE, issues |-> issues]
Exception == [raised |-> TRUE, issues |-> <<>>]

\* ValidationResult.is_valid: add_issue sets it to False
is_valid(result) == result.issues = <<>>

\* is_numeric_dtype of a column; a column without cells is of object dtype
IsNumericColumn(cells) == cells # <<>> /\ IsNumericDtype(cells)

\* series.unique(): the distinct cells in order of first appearance
RECURSIVE Unique(_)
Unique(cells) ==
    IF cells = <<>> THEN <<>>
    ELSE LET init == Unique(SubSeq(cells, 1, Len(cells) - 1))
             last == cells[Len(cells)]
         IN  IF InSeq(init, last) THEN init ELSE Append(init, last)

key_regions == <<R_TRREB_Total, R_Halton_Region, R_Peel_Region, R_City_of_Toronto>>

min_expected_regions == 15

\* validate_regions(df), the region column being the first one; df.columns[0]
\* raises IndexError on a table without columns
validate_regions(df) ==
    IF df.columns = <<>> THEN Exception
    ELSE LET regions == Unique(ColumnAt(df, 1))
             unknown == SelectSeq(regions, LAMBDA c :
                            ~c.na /\ ~(IsText(c) /\ InSeq(ALL_REGIONS, c.s)))
             missing == SelectSeq(key_regions, LAMBDA region :
                            ~InSeq(regions, Str(region)))
         IN  Result(
                 (IF unknown # <<>>
                  THEN <<Issue("regions", "unknown",
                               [i \in 1..Len(unknown) |-> AsStr(unknown[i])], Len(unknown))>>
                  ELSE <<>>)
                 \o (IF missing # <<>>
                     THEN <<Issue("regions", "missing key regions", missing, Len(missing))>>
                     ELSE <<>>)
                 \o (IF Len(regions) < min_expected_regions
                     THEN <<Issue("regions", "few regions", <<>>, Len(regions))>>
                     ELSE <<>>))

\* lines 161-172: the columns checked when the period cannot be determined
default_numeric_columns ==
    <<L_Sales, L_Dollar_Volume, L_Average_Price, L_Median_Price, L_New_Listings,
      L_Active_Listings, L_Months_Inventory, L_Avg_SP_LP, L_Avg_DOM, L_Avg_PDOM>>

robust_cols == {L_Avg_SP_LP, L_Avg_DOM, L_Avg_PDOM, L_SNLR_Trend, L_Months_Inventory}

Abs(x) == IF x < 0 THEN -x ELSE x

\* the whole number a numeric cell holds
IntOf(c) == LET v == ValueOf(c) IN IF v.neg THEN -v.n ELSE v.n

\* the number of a numeric cell in units of 10^-4
Scaled(c) ==
    LET v == ValueOf(c)
        n == IF v.e <= RoundDigits THEN v.n * Pow10(RoundDigits - v.e)
             ELSE v.n \div Pow10(v.e - RoundDigits)
    IN  IF v.neg THEN -n ELSE n

Count(cells, Test(_)) == Len(SelectSeq(cells, Test))

\* the whole numbers of a sequence in ascending order
RECURSIVE Sorted(_)
Sorted(xs) ==
    IF xs = <<>> THEN <<>>
    ELSE LET i == CHOOSE i \in 1..Len(xs) : \A j \in 1..Len(xs) : xs[i] <= xs[j]
         IN  <<xs[i]>> \o Sorted(RemoveAt(xs, i))

\* four times series.quantile(k / 4), by linear interpolation
Quantile4(xs, k) ==
    LET sorted == Sorted(xs)
        lo == (k * (Len(xs) - 1)) \div 4
        fr == (k * (Len(xs) - 1)) % 4
    IN  IF fr = 0 THEN 4 * sorted[lo + 1]
        ELSE 4 * sorted[lo + 1] + fr * (sorted[lo + 2] - sorted[lo + 1])

MissingPercent == 5
NegativeRows == 3
IqrFactor == 5
OutlierRows == 5

\* lines 218-227: the rows outside Q1 - 5 IQR .. Q3 + 5 IQR
Outliers(cells) ==
    LET present == SelectSeq(cells, LAMBDA c : ~c.na)
        xs == [i \in 1..Len(present) |-> Scaled(present[i])]
        q1 == Quantile4(xs, 1)
        q3 == Quantile4(xs, 3)
    IN  Count(xs, LAMBDA x : \/ 4 * x < q1 - IqrFactor * (q3 - q1)
                             \/ 4 * x > q3 + IqrFactor * (q3 - q1))

\* the issues F gives for the columns of a list, in the list's order
RECURSIVE Flatten(_)
Flatten(lists) == IF lists = <<>> THEN <<>> ELSE Head(lists) \o Flatten(Tail(lists))
IssuesOf(cols, F(_)) == Flatten([i \in 1..Len(cols) |-> F(cols[i])])

\* validate_numeric_columns(df, None, date_str, property_type); a division
\* of the numpy count by len(df) = 0 gives nan, which is not above 5
validate_numeric_columns(df, date, ptype) ==
    LET expected == IF date # <<>>
                    THEN get_expected_columns(ptype, determine_period(date))
                    ELSE default_numeric_columns
        numeric_cols == SelectSeq(expected, LAMBDA col : HasCol(df, col))
        numeric(col) == IsNumericColumn(Column(df, col))
        missing(col) == Count(Column(df, col), LAMBDA c : c.na)
        negative(col) == Count(Column(df, col), LAMBDA c : ~c.na /\ ValueOf(c).neg)
    IN  IF numeric_cols = <<>>
        THEN Result(<<Issue("numeric", "no expected column", expected, 0)>>)
        ELSE Result(
                 IssuesOf(numeric_cols, LAMBDA col :
                     IF ~numeric(col)
                     THEN <<Issue("numeric", "not numeric", <<col>>, 0)>> ELSE <<>>)
                 \o IssuesOf(numeric_cols, LAMBDA col :
                        IF df.rows # <<>> /\ missing(col) * 100 > MissingPercent * Len(df.rows)
                        THEN <<Issue("numeric", "missing values", <<col>>, missing(col))>>
                        ELSE <<>>)
                 \o IssuesOf(numeric_cols, LAMBDA col :
                        IF col # L_Avg_SP_LP /\ numeric(col) /\ negative(col) > NegativeRows
                        THEN <<Issue("numeric", "negative values", <<col>>, negative(col))>>
                        ELSE <<>>)
                 \o IssuesOf(numeric_cols, LAMBDA col :
                        IF /\ col \in robust_cols
                           /\ numeric(col)
                           /\ missing(col) < Len(df.rows)
                           /\ Outliers(Column(df, col)) > OutlierRows
                        THEN <<Issue("numeric", "outliers", <<col>>, Outliers(Column(df, col)))>>
                        ELSE <<>>))

required_cols == <<L_Sales, L_Dollar_Volume, L_Average_Price>>

\* 1 / rtol of line 270: tolerance = 0.005
Tolerance == 200

\* np.isclose(average, volume / sales, rtol=0.005) for whole numbers and
\* sales # 0: |a - b| <= atol + rtol * |b| with b = volume / sales, both
\* sides multiplied by |sales| / rtol (the left side being a whole number,
\* the right side may be cut to one); atol = 1e-8 adds less than one to the
\* right side and so decides no comparison of whole numbers
IsClose(average, volume, sales) ==
    Abs(average * sales - volume) <= Abs(volume) \div Tolerance

\* validate_data_consistency without the tolerance: any difference counts
Inconsistent_exact(average, volume, sales) ==
    average.na = FALSE /\ ~volume.na /\ ~sales.na
        /\ ~(IntOf(sales) = 0 /\ IntOf(volume) = 0)
        /\ (IntOf(sales) = 0 \/ IntOf(average) * IntOf(sales) # IntOf(volume))

\* lines 273-284 for one row: the stored and the recomputed average are not
\* null and not close; volume / 0 is nan for volume = 0 and infinite otherwise
Inconsistent(average, volume, sales) ==
    average.na = FALSE /\ ~volume.na /\ ~sales.na
        /\ ~(IntOf(sales) = 0 /\ IntOf(volume) = 0)
        /\ (IntOf(sales) = 0 \/ ~IsClose(IntOf(average), IntOf(volume), IntOf(sales)))

\* validate_data_consistency(df)
validate_data_consistency(df) ==
    LET missing_cols == SelectSeq(required_cols, LAMBDA col : ~HasCol(df, col))
        inconsistent_rows ==
            Count(df.rows, LAMBDA row :
                Inconsistent(row[ColIndex(df, L_Average_Price)],
                             row[ColIndex(df, L_Dollar_Volume)],
                             row[ColIndex(df, L_Sales)]))
        invalid_snlr ==
            Count(Column(df, L_SNLR_Trend), LAMBDA c :
                ~c.na /\ (ValueOf(c).neg \/ Above1_5(ValueOf(c))))
    IN  IF missing_cols # <<>>
        THEN Result(<<Issue("consistency", "missing required columns", missing_cols, 0)>>)
        ELSE Result(
                 (IF /\ \A i \in 1..Len(required_cols) :
                            IsNumericColumn(Column(df, required_cols[i]))
                     /\ inconsistent_rows > 0
                  THEN <<Issue("consistency", "average price", <<L_Average_Price>>,
                               inconsistent_rows)>>
                  ELSE <<>>)
                 \o (IF /\ HasCol(df, L_SNLR_Trend)
                        /\ HasCol(df, L_New_Listings)
                        /\ IsNumericColumn(Column(df, L_SNLR_Trend))
                        /\ IsNumericColumn(Column(df, L_Sales))
                        /\ IsNumericColumn(Column(df, L_New_Listings))
                        /\ invalid_snlr > 0
                     THEN <<Issue("consistency", "snlr", <<L_SNLR_Trend>>, invalid_snlr)>>
                     ELSE <<>>))

\* date(y, m, d).toordinal()
IsLeap(y) == y % 4 = 0 /\ (y % 100 # 0 \/ y % 400 = 0)
DaysInMonth(y, m) ==
    IF m = 2 THEN (IF IsLeap(y) THEN 29 ELSE 28)
    ELSE IF m \in {4, 6, 9, 11} THEN 30 ELSE 31
RECURSIVE DaysBeforeMonth(_, _)
DaysBeforeMonth(y, m) ==
    IF m = 1 THEN 0 ELSE DaysBeforeMonth(y, m - 1) + DaysInMonth(y, m - 1)
Ordinal(y, m, d) ==
    365 * (y - 1) + (y - 1) \div 4 - (y - 1) \div 100 + (y - 1) \div 400
        + DaysBeforeMonth(y, m) + d

\* pd.to_datetime of a text 'YYYY-MM-DD': the day it names, if it names one
DateYear(t) == DigitsToInt(SubSeq(t, 1, 4))
DateMonth(t) == DigitsToInt(SubSeq(t, 6, 7))
DateDay(t) == DigitsToInt(SubSeq(t, 9, 10))
IsDateText(t) ==
    /\ Len(t) = 10
    /\ t[5] = "-" /\ t[8] = "-"
    /\ IsDigits(SubSeq(t, 1, 4) \o SubSeq(t, 6, 7) \o SubSeq(t, 9, 10))
    /\ DateYear(t) >= 1
    /\ DateMonth(t) \in 1..12
    /\ DateDay(t) \in 1..DaysInMonth(DateYear(t), DateMonth(t))
DayOf(t) == Ordinal(DateYear(t), DateMonth(t), DateDay(t))

\* pd.to_datetime(df[date_col]) succeeds: every cell is null or names a day
DatesParse(cells) ==
    \A i \in 1..Len(cells) : cells[i].na \/ (IsText(cells[i]) /\ IsDateText(cells[i].s))

GapDays == 35

\* region_data.sort_values(date_col) left out
SortedByDate_unsorted(days) == days

\* line 362: region_data.sort_values(date_col), on the days of the records
SortedByDate(days) == Sorted(days)

\* lines 365-370: the differences of consecutive dates above 35 days; a
\* record without date sorts last and gives no difference
Gaps(days) ==
    LET sorted == SortedByDate(days)
    IN  Cardinality({i \in 1..(Len(sorted) - 1) : sorted[i + 1] - sorted[i] > GapDays})

\* the days of the dated records of a region, in row order
RegionDays(df, date_col, region) ==
    LET rows == SelectSeq(df.rows, LAMBDA row :
                    row[1] = Str(region) /\ ~row[ColIndex(df, date_col)].na)
    IN  [i \in 1..Len(rows) |-> DayOf(rows[i][ColIndex(df, date_col)].s)]

\* validate_time_series_continuity(df, date_col), the region column being
\* the first one
validate_time_series_continuity(df, date_col) ==
    IF ~HasCol(df, date_col)
    THEN Result(<<Issue("continuity", "date column not found", <<date_col>>, 0)>>)
    ELSE IF ~DatesParse(Column(df, date_col))
    THEN Result(<<Issue("continuity", "failed to convert", <<date_col>>, 0)>>)
    ELSE Result(IssuesOf(key_regions, LAMBDA region :
             IF Gaps(RegionDays(df, date_col, region)) > 0
             THEN <<Issue("continuity", "gaps", <<region>>,
                          Gaps(RegionDays(df, date_col, region)))>>
             ELSE <<>>))

\* generate_validation_report(df, date_col, date_str, property_type); no
\* date_col and no date_str are written as the empty text
generate_validation_report(df, date_col, date, ptype) ==
    LET region_validation == validate_regions(df)
        numeric_validation == validate_numeric_columns(df, date, ptype)
        consistency_validation == validate_data_consistency(df)
        time_series_validation == validate_time_series_continuity(df, date_col)
        expected == get_expected_columns(ptype, determine_period(date))
        missing_cols == SelectSeq(expected, LAMBDA col : ~HasCol(df, col))
    IN  IF region_validation.raised THEN Exception
        ELSE Result(
                 region_validation.issues
                 \o numeric_validation.issues
                 \o consistency_validation.issues
                 \o (IF date_col # <<>> /\ HasCol(df, date_col)
                     THEN time_series_validation.issues ELSE <<>>)
                 \o (IF date # <<>> /\ missing_cols # <<>>
                     THEN <<Issue("report", "missing expected columns", missing_cols, 0)>>
                     ELSE <<>>))

(***************************************************************************)
(* Inputs of the artifact-store model                                      *)
(***************************************************************************)

MaxPageTables == 1
MaxBatch == 2

SeqUpTo(S, n) == UNION {[1..k -> S] : k \in 0..n}

\* One report of the layout-based era and one of the assisted era.
DocDates == {DateStr(2019, 12), DateStr(2020, 1)}
\* extract_date_from_filename found no date in the file's name
NoDate == <<>>

TableShapes == {<<0, 0>>, <<4, 3>>, <<6, 2>>}

TabulaAnswers ==
    {[ok |-> FALSE, tables |-> <<>>]}
        \cup {[ok |-> TRUE, tables |-> t] : t \in SeqUpTo(TableShapes, MaxPageTables)}

ParsedAnswers ==
    {[ok |-> FALSE, df |-> EmptyFrame]} \cup {[ok |-> TRUE, df |-> t] : t \in TableShapes}

NoTabula == [ok |-> FALSE, tables |-> <<>>]
NoParsed == [ok |-> FALSE, df |-> EmptyFrame]

\* What the collaborators may answer to extract_table, by extractor class.
Envs(kind) ==
    IF kind = "Pre2020TableExtractor"
    THEN [lattice : TabulaAnswers, stream : TabulaAnswers, has_client : {TRUE},
          page_text : {""}, ai : {"error"}, parsed : {NoParsed}]
    ELSE [lattice : {NoTabula}, stream : {NoTabula}, has_client : BOOLEAN,
          page_text : {"", "text"}, ai : {"error", "empty", "csv"},
          parsed : ParsedAnswers]

\* The way extraction fails under these answers, "none" when no failure of the
\* kinds below occurs: a table-detection error, no candidate table, a missing
\* service client, no page text, a service error, an empty response, or an
\* unparsable response.
FailureCause(kind, env) ==
    IF kind = "Pre2020TableExtractor"
    THEN IF ~env.lattice.ok THEN "detection_error"
         ELSE IF env.lattice.tables = <<>> /\ ~env.stream.ok THEN "detection_error"
         ELSE IF env.lattice.tables = <<>> /\ env.stream.tables = <<>> THEN "no_candidate"
         ELSE "none"
    ELSE IF ~env.has_client THEN "no_client"
         ELSE IF env.page_text = "" THEN "no_text"
         ELSE IF env.ai = "error" THEN "service_error"
         ELSE IF env.ai = "empty" THEN "empty_response"
         ELSE IF ~env.parsed.ok THEN "parse_error"
         ELSE "none"

\* Every way extract_table of a class can end: the failure cause, whether a
\* client is configured, and the [raised, df] the method ends with.
Extraction(kind, env) ==
    [cause |-> FailureCause(kind, env), has_client |-> env.has_client,
     ex |-> extract_table(kind, env.has_client, env)]

PreExtractions ==
    {Extraction("Pre2020TableExtractor", env) : env \in Envs("Pre2020TableExtractor")}

PostExtractions ==
    {Extraction("Post2020TableExtractor", env) : env \in Envs("Post2020TableExtractor")}

\* The ends extract_table can take for the extractor of class kind in this run.
Extractions(kind) ==
    IF kind = "Pre2020TableExtractor"
    THEN PreExtractions
    ELSE {x \in PostExtractions : x.has_client = api_key}

CleanOutcomes == {"raise", "keep", "empty"}
CsvOutcomes == {"ok", "raise", "partial"}

\* What is observed of a call: its arguments, whether the output existed and
\* whether an earlier call on it had returned success, how extraction failed,
\* the outcome, and whether the output file is as it was before the call.
Observed(made, d, overwrite, file, had_success, cause, r) ==
    [made |-> made, date |-> d, overwrite |-> overwrite, existed |-> file.exists,
     had_success |-> had_success, cause |-> cause,
     success |-> r.success, shape |-> r.shape, extracted |-> r.extracted,
     cleaned |-> r.cleaned, ex_raised |-> r.ex_raised, ex_empty |-> r.ex_empty,
     saved |-> r.saved, exists_after |-> r.file.exists, unchanged |-> r.file = file]

NoCall == Observed(FALSE, NoDate, FALSE, Absent, FALSE, "none", CachedOutcome(Absent))

\* extractor = get_table_extractor(date_str, property_type);
\* extractor.process_pdf(pdf_path, output_path, overwrite), with the store updated.
CallProcessPdf(d, overwrite, x, clean, csv, r) ==
    /\ r = process_pdf(store[d], overwrite, x.ex, clean, csv)
    /\ store' = [store EXCEPT ![d] = r.file]
    /\ materialized' = [materialized EXCEPT ![d] = @ \/ r.success]
    /\ call' = Observed(TRUE, d, overwrite, store[d], materialized[d], x.cause, r)

(***************************************************************************)
(* Inputs of the schema-consistency model                                  *)
(***************************************************************************)

MaxCols == 2
MaxRows == 2

L_Blank == <<" ">>

\* Column labels a table may carry: a blank and an unnamed label, the region
\* label, the label of a column whose header was read as a missing value, an
\* expected field, and a variant spelling of an expected field.  Off the first
\* position the first four are fields beyond the expected ones.
LabelPool ==
    {L_Blank, L_Unnamed_0, L_Region, L_nan, L_Average_Price, L_Avg_Dot_DOM}

\* Cell values: null, and the name of the top-level total.
CellPool == {NullCell, Str(R_TRREB_Total)}

\* Column labels of one table are distinct, as pd.read_csv delivers them.
ColumnLists ==
    {c \in SeqUpTo(LabelPool, MaxCols) :
        \A i, j \in 1..Len(c) : i # j => c[i] # c[j]}

InputTables ==
    UNION {[columns : {c}, rows : SeqUpTo([1..Len(c) -> CellPool], MaxRows)] :
              c \in ColumnLists}

\* The expected-column lists the normalizer hands over.
ExpectedLists == {get_expected_columns(p, q) : p \in PropertyTypes, q \in Periods}

NoTable == [columns |-> <<>>, rows |-> <<>>]

(***************************************************************************)
(* Inputs of the normalization model                                       *)
(***************************************************************************)

MaxRawRows == 2

L_Empty == <<>>
R_Ajax == <<"A", "j", "a", "x">>
T_1_234 == <<"1", ",", "2", "3", "4">>
T_n_a == <<"n", "/", "a">>
T_850_000 == <<"$", "8", "5", "0", ",", "0", "0", "0">>

\* Labels of the region column of a raw table: none, the one pd.read_csv gives
\* a column without header, and 'Region'.
RawRegionLabels == {L_Empty, L_Unnamed_0, L_Region}

\* The metric columns of a raw table.
RawMetricLabels == {<<>>, <<L_Hash_of_Sales>>, <<L_Hash_of_Sales, L_Average_Price>>}

\* The cells a raw column may hold: a variant of the top-level total or a
\* municipality in the region column, formatted text in the metric columns.
RawCells(label) ==
    IF label = L_Hash_of_Sales THEN {Str(T_1_234), Str(T_n_a)}
    ELSE IF label = L_Average_Price THEN {Str(T_850_000)}
    ELSE {Str(R_TREB_Total), Str(R_Ajax)}

RawRows(columns) ==
    {row \in [1..Len(columns) -> UNION {RawCells(columns[k]) : k \in 1..Len(columns)}] :
        \A k \in 1..Len(columns) : row[k] \in RawCells(columns[k])}

RawTables ==
    UNION {[columns : {<<r>> \o m}, rows : SeqUpTo(RawRows(<<r>> \o m), MaxRawRows)] :
              r \in RawRegionLabels, m \in RawMetricLabels}

\* date_str of a pass: None, or a date of each era
NormDates == {<<>>, DateStr(2019, 12), DateStr(2021, 6), DateStr(2022, 4)}

(***************************************************************************)
(* Inputs of the calls of single normalization steps                       *)
(***************************************************************************)

MaxStepRows == 2

T_58_5_pct == <<"5", "8", ".", "5", "%">>
T_58_5 == <<"5", "8", ".", "5">>
T_1_2 == <<"1", ".", "2">>
L_Padded_Avg_Price == <<" ", "A", "v", "g", ".", " ", "P", "r", "i", "c", "e">>
L_Quoted_Price == <<"\"", "P", "r", "i", "c", "e", "\"">>

\* The cells of a metric column as pd.read_csv delivers them: formatted text,
\* a marker of a missing value, or a float where the whole text was a number.
StepCells ==
    {Str(T_58_5_pct), Str(T_58_5), Str(T_1_234), Str(T_850_000), Str(T_n_a),
     Num(T_58_5), Num(T_1_2)}

\* Labels of the metric column: one of each declared type, variants of the
\* column label map, and labels that are no key of it.
StepLabels ==
    {L_SNLR_Trend, L_Avg_SP_LP, L_Average_Price, L_Sales, L_Avg_DOM,
     L_Sales1, L_Hash_of_Sales, L_Padded_Avg_Price, L_Quoted_Price, L_Price}

\* A table of a region column and one metric column.
StepTables ==
    UNION {[columns : {<<L_Region, m>>},
            rows : SeqUpTo({<<Str(R_TRREB_Total), c>> : c \in StepCells}, MaxStepRows)] :
              m \in StepLabels}

(***************************************************************************)
(* Inputs of the table cleaning model                                      *)
(***************************************************************************)

MaxLayoutCols == 4
MaxLayoutRows == 2

\* The labels of a raw table, by position.
LayoutLabels ==
    <<L_Unnamed_0, L_Sales, L_Dollar_Volume, L_Average_Price, L_New_Listings,
      L_Active_Listings>>

\* The cells of a raw table: the name of an anchor region, or a figure.
LayoutCells == {Str(R_TREB_Total), Str(T_1_234)}

LayoutTables ==
    UNION {[columns : {SubSeq(LayoutLabels, 1, n)},
            rows : SeqUpTo([1..n -> LayoutCells], MaxLayoutRows)] :
              n \in 1..MaxLayoutCols}

(***************************************************************************)
(* Inputs of the validation model                                          *)
(***************************************************************************)

MaxValRows == 2

T_0 == <<"0">>
T_100 == <<"1", "0", "0">>
T_85_000_000 == <<"8", "5", "0", "0", "0", "0", "0", "0">>
T_849_999 == <<"8", "4", "9", "9", "9", "9">>
T_854_250 == <<"8", "5", "4", "2", "5", "0">>
T_854_251 == <<"8", "5", "4", "2", "5", "1">>
T_2020_01_01 == <<"2", "0", "2", "0", "-", "0", "1", "-", "0", "1">>
T_2020_02_05 == <<"2", "0", "2", "0", "-", "0", "2", "-", "0", "5">>
T_2020_02_10 == <<"2", "0", "2", "0", "-", "0", "2", "-", "1", "0">>
T_21 == <<"2", "1">>
T_0_585 == <<"0", ".", "5", "8", "5">>

\* Records of one region with its sale count, aggregate value and stored
\* average: an average within, on the edge of and beyond the tolerance of
\* 85,000,000 / 100, cells without value, and a month without sales.
ConsistencyRows ==
    {<<Str(R_TRREB_Total), sales, volume, average>> :
        sales \in {NaNCell, Num(T_0), Num(T_100)},
        volume \in {Num(T_0), Num(T_85_000_000)},
        average \in {NaNCell, Num(T_849_999), Num(T_854_250), Num(T_854_251)}}

ConsistencyTables ==
    [columns : {<<L_Region, L_Sales, L_Dollar_Volume, L_Average_Price>>},
     rows : SeqUpTo(ConsistencyRows, MaxValRows)]

\* Records of two anchor regions dated 35 and 40 days after the first day,
\* undated, or with a text that names no day.
ContinuityRows ==
    {<<Str(region), date>> :
        region \in {R_TRREB_Total, R_Halton_Region},
        date \in {Str(T_2020_01_01), Str(T_2020_02_05), Str(T_2020_02_10),
                  Str(T_Total), NullCell}}

ContinuityTables ==
    [columns : {<<L_Region, L_date>>}, rows : SeqUpTo(ContinuityRows, MaxValRows)]

\* Tables short of columns or rows, and one with the ratio and decimal
\* columns the range checks read.
SchemaTables ==
    {NoFrame,
     [columns |-> <<L_Region>>, rows |-> <<>>],
     [columns |-> <<L_Region>>, rows |-> <<<<Str(R_Ajax)>>>>],
     [columns |-> <<L_Sales, L_date>>, rows |-> <<<<Str(T_1_234), Str(T_2020_01_01)>>>>],
     [columns |-> <<L_Region, L_Sales, L_Dollar_Volume, L_Average_Price,
                    L_New_Listings, L_SNLR_Trend, L_Avg_DOM>>,
      rows |-> <<<<Str(R_TRREB_Total), Num(T_100), Num(T_85_000_000), Num(T_849_999),
                   Num(T_100), Num(T_58_5), Num(T_21)>>,
                 <<NaNCell, Num(T_100), Num(T_85_000_000), NaNCell,
                   NaNCell, Num(T_0_585), Num(T_21)>>>>]}

MaxSignRows == 4

T_minus_21 == <<"-", "2", "1">>

\* Tables of one count, trend or ratio column that holds numbers below and
\* above zero.
SignTables ==
    {[columns |-> <<L_Region, label>>,
      rows |-> [r \in 1..Len(cells) |-> <<Str(R_TRREB_Total), cells[r]>>]] :
        label \in {L_Sales, L_SNLR_Trend, L_Avg_SP_LP},
        cells \in SeqUpTo({Num(T_minus_21), Num(T_21)}, MaxSignRows)}

ValTables == ConsistencyTables \cup ContinuityTables \cup SchemaTables

\* Tables read from a CSV file whose rows lost their alignment: the first
\* column holds a number or nothing where the region name belongs.
MisalignedCells == {Num(T_21), NaNCell, Str(R_TREB_Total), Str(R_Ajax)}

MisalignedTables ==
    [columns : {<<r, L_Sales>> : r \in {L_Unnamed_0, L_Region}},
     rows : SeqUpTo({<<c, sales>> : c \in MisalignedCells,
                                    sales \in {Num(T_100), Str(T_1_234)}},
                    MaxRawRows)]

(***************************************************************************)
(* Inputs of the normalize command model                                   *)
(***************************************************************************)

MaxDocRows == 2

\* the documents, named by their dates; sorted(csv_files) reads them in
\* this order
PipelineDates == <<DateStr(2019, 11), DateStr(2019, 12)>>

\* First cells of the rows of a raw table: region names in the spelling of
\* the reports, and the page number a layout-based extraction leaves behind.
DocRegions == {R_TREB_Total, R_Halton_Region, R_City_of_Toronto, T_21}

\* Raw tables as the layout-based extraction returns them: the region column
\* under the label of an empty header cell, no region twice.
DocTables ==
    {[columns |-> <<L_Unnamed_0, L_Sales>>,
      rows |-> [r \in 1..Len(regions) |-> <<Str(regions[r]), Num(T_21)>>]] :
        regions \in {q \in SeqUpTo(DocRegions, MaxDocRows) :
                        \A i, j \in 1..Len(q) : i # j => q[i] # q[j]}}

\* the date argument of normalize_type: None, or the date of one document
PipelineArgs == {<<>>} \cup {PipelineDates[i] : i \in 1..Len(PipelineDates)}

(***************************************************************************)
(* Inputs of the calls of the region steps                                 *)
(***************************************************************************)

MaxRegionRows == 2

R_Padded_Halton == <<" ", "H", "a", "l", "t", "o", "n", " ">>
R_Elsewhere == <<"E", "l", "s", "e", "w", "h", "e", "r", "e">>

\* The cells a region column may hold: spellings the region label map knows
\* (one of them padded), a region of the hierarchy, a municipality, a name
\* the configuration lacks, and what a misaligned row leaves in the region
\* slot: a number as text or as a float, or nothing.
RegionCells ==
    {Str(R_TREB_Total), Str(R_Padded_Halton), Str(R_TRREB_Total), Str(R_Halton_Region),
     Str(R_Ajax), Str(R_Elsewhere), Str(T_21), Num(T_21), NaNCell}

\* A table of a region column and a 'Sales' column.
RegionTables ==
    [columns : {<<L_Region, L_Sales>>},
     rows : SeqUpTo({<<c, Num(T_21)>> : c \in RegionCells}, MaxRegionRows)]

(***************************************************************************)
(* Inputs of the table detection model                                     *)
(***************************************************************************)

MaxCandidates == 2

\* Shapes of candidate tables: an empty one, a header without rows, tables
\* below and above the row threshold, two of them with the same cell count.
CandidateShapes == {<<0, 0>>, <<0, 3>>, <<4, 3>>, <<6, 2>>, <<3, 2>>}

\* What tabula.read_pdf may answer: an exception, or a list of tables.
CandidateAnswers ==
    {NoTabula} \cup {[ok |-> TRUE, tables |-> t] :
                        t \in SeqUpTo(CandidateShapes, MaxCandidates)}

(***************************************************************************)
(* Inputs of the prompt model                                              *)
(***************************************************************************)

\* The documents the assisted extractor is given: extract_table passes the
\* file name without its suffix, and the page files are named by their
\* date, from the first month of the assisted era on.
SourceNames == {DateStr(y, m) : y \in 2020..MaxYear, m \in 1..12}

PageTexts == {<<"H", "a", "l", "t", "o", "n", " ", "R", "e", "g", "i", "o", "n", " ", "2", "1">>, <<"T", "R", "R", "E", "B", " ", "T", "o", "t", "a", "l", " ", "1", "0", "0">>}

(***************************************************************************)
(* Inputs of the ValidationResult model                                    *)
(***************************************************************************)

MaxIssues == 3

\* Descriptions the checks pass to add_issue.
IssueTexts ==
    {<<"R", "e", "g", "i", "o", "n", " ", "c", "o", "l", "u", "m", "n", " ", "n", "o", "t", " ", "f", "o", "u", "n", "d">>,
     <<"M", "i", "s", "s", "i", "n", "g", " ", "k", "e", "y", " ", "r", "e", "g", "i", "o", "n", "s">>,
     <<"n", "o", "t", " ", "n", "u", "m", "e", "r", "i", "c">>,
     <<"n", "e", "g", "a", "t", "i", "v", "e", " ", "v", "a", "l", "u", "e", "s">>,
     <<"M", "i", "s", "s", "i", "n", "g", " ", "e", "x", "p", "e", "c", "t", "e", "d", " ", "c", "o", "l", "u", "m", "n", "s">>}

(***************************************************************************)
(* Initial states                                                          *)
(***************************************************************************)

EraInputs ==
    /\ year \in START_YEAR..MaxYear
    /\ month \in 1..12
    /\ property_type \in PropertyTypes

EraStart ==
    /\ date_str = DateStr(year, month)
    /\ era_pc = "input"
    /\ period = "none"
    /\ extractor = "none"
    /\ expected_columns = <<>>

EraQuiet ==
    /\ year = START_YEAR
    /\ month = 1
    /\ property_type = "all_home_types"
    /\ EraStart

StoreStart ==
    /\ store = [d \in DocDates |-> Absent]
    /\ materialized = [d \in DocDates |-> FALSE]
    /\ call = NoCall
    /\ b_pc = "idle"
    /\ b_overwrite = FALSE
    /\ b_files = <<>>
    /\ b_idx = 1
    /\ b_results = <<>>
    /\ b_failed = <<>>

StoreQuiet ==
    /\ api_key = TRUE
    /\ run_type = "all_home_types"
    /\ StoreStart

ColsStart ==
    /\ cc_pc = "input"
    /\ cc_variant = "none"
    /\ cc_out = NoTable

ColsQuiet ==
    /\ cc_df = NoTable
    /\ cc_expected = <<>>
    /\ ColsStart

NormStart ==
    /\ nz_pc = "raw"
    /\ nz_variant = "none"
    /\ nz_first = Returned(NoFrame)
    /\ nz_date2 = <<>>
    /\ nz_second = Returned(NoFrame)

NormQuiet ==
    /\ nz_df = NoFrame
    /\ nz_date = <<>>
    /\ nz_type = "all_home_types"
    /\ NormStart

StepStart ==
    /\ st_pc = "input"
    /\ st_op = "none"
    /\ st_out = NoFrame

StepQuiet ==
    /\ st_df = NoFrame
    /\ StepStart

IdStart ==
    /\ id_pc = "input"
    /\ id_out = NoFrame

IdQuiet ==
    /\ id_df = NoFrame
    /\ IdStart

NoArgs == [date_col |-> <<>>, date |-> <<>>, ptype |-> "all_home_types"]

ValStart ==
    /\ va_pc = "input"
    /\ va_op = "none"
    /\ va_args = NoArgs
    /\ va_result = Result(<<>>)

ValQuiet ==
    /\ va_df = NoFrame
    /\ ValStart

NoFile == [exists |-> FALSE, df |-> NoFrame]

PipeStart ==
    /\ pl_pc = "convert"
    /\ pl_files = [i \in 1..Len(PipelineDates) |-> NoFile]
    /\ pl_idx = 1
    /\ pl_args = [date |-> <<>>, ptype |-> "all_home_types"]
    /\ pl_frames = [i \in 1..Len(PipelineDates) |-> Raised]
    /\ pl_combined = NoOutput
    /\ pl_second = Returned(NoFrame)
    /\ pl_out = NoOutput

PipeQuiet ==
    /\ pl_raw = [i \in 1..Len(PipelineDates) |-> NoFrame]
    /\ PipeStart

TabulaStart ==
    /\ tb_pc = "input"
    /\ tb_ran = <<>>
    /\ tb_out = EmptyFrame

TabulaQuiet ==
    /\ tb_lattice = NoTabula
    /\ tb_stream = NoTabula
    /\ TabulaStart

PromptStart ==
    /\ pr_pc = "input"
    /\ pr_prompt = NoPrompt

PromptQuiet ==
    /\ pr_name = <<>>
    /\ pr_type = "all_home_types"
    /\ pr_text = <<>>
    /\ PromptStart

DownloadStart ==
    /\ dl_pc = "request"
    /\ dl_path = <<>>
    /\ dl_date = <<>>
    /\ dl_page = <<>>

DownloadQuiet ==
    /\ dl_year = START_YEAR
    /\ dl_month = 1
    /\ DownloadStart

ResultQuiet ==
    /\ vr_result = ValidationResult
    /\ vr_added = <<>>

FrameStart ==
    /\ fr_pc = "input"
    /\ fr_caller = fr_before
    /\ fr_op = "none"
    /\ fr_out = Returned(NoFrame)
    /\ fr_same = FALSE

FrameQuiet ==
    /\ fr_before = NoFrame
    /\ FrameStart

MoreQuiet == TabulaQuiet /\ PromptQuiet /\ DownloadQuiet /\ ResultQuiet /\ FrameQuiet

RestQuiet == StepQuiet /\ IdQuiet /\ ValQuiet /\ PipeQuiet /\ MoreQuiet

EraInit == EraInputs /\ EraStart /\ StoreQuiet /\ ColsQuiet /\ NormQuiet /\ RestQuiet

NormInit ==
    /\ nz_df \in RawTables
    /\ nz_date \in NormDates
    /\ nz_type \in PropertyTypes
    /\ NormStart
    /\ EraQuiet
    /\ StoreQuiet
    /\ ColsQuiet
    /\ RestQuiet

MisalignedInit ==
    /\ nz_df \in MisalignedTables
    /\ nz_date \in NormDates
    /\ nz_type \in PropertyTypes
    /\ NormStart
    /\ EraQuiet
    /\ StoreQuiet
    /\ ColsQuiet
    /\ RestQuiet

StepInit ==
    /\ st_df \in StepTables
    /\ StepStart
    /\ EraQuiet
    /\ StoreQuiet
    /\ ColsQuiet
    /\ NormQuiet
    /\ IdQuiet
    /\ ValQuiet
    /\ PipeQuiet
    /\ MoreQuiet

IdInit ==
    /\ id_df \in LayoutTables
    /\ IdStart
    /\ EraQuiet
    /\ StoreQuiet
    /\ ColsQuiet
    /\ NormQuiet
    /\ StepQuiet
    /\ ValQuiet
    /\ PipeQuiet
    /\ MoreQuiet

ValInit ==
    /\ va_df \in ValTables
    /\ ValStart
    /\ EraQuiet
    /\ StoreQuiet
    /\ ColsQuiet
    /\ NormQuiet
    /\ StepQuiet
    /\ IdQuiet
    /\ PipeQuiet
    /\ MoreQuiet

SignInit ==
    /\ va_df \in SignTables
    /\ ValStart
    /\ EraQuiet
    /\ StoreQuiet
    /\ ColsQuiet
    /\ NormQuiet
    /\ StepQuiet
    /\ IdQuiet
    /\ PipeQuiet
    /\ MoreQuiet

PipeInit ==
    /\ pl_raw \in [1..Len(PipelineDates) -> DocTables]
    /\ PipeStart
    /\ EraQuiet
    /\ StoreQuiet
    /\ ColsQuiet
    /\ NormQuiet
    /\ StepQuiet
    /\ IdQuiet
    /\ ValQuiet
    /\ MoreQuiet

RegionInit ==
    /\ st_df \in RegionTables
    /\ StepStart
    /\ EraQuiet
    /\ StoreQuiet
    /\ ColsQuiet
    /\ NormQuiet
    /\ IdQuiet
    /\ ValQuiet
    /\ PipeQuiet
    /\ MoreQuiet

\* every group before the later ones at rest
EarlyQuiet ==
    /\ EraQuiet
    /\ StoreQuiet
    /\ ColsQuiet
    /\ NormQuiet
    /\ StepQuiet
    /\ IdQuiet
    /\ ValQuiet
    /\ PipeQuiet

early_vars ==
    <<era_vars, store_vars, batch_vars, cc_vars, nz_vars, st_vars, id_vars, va_vars,
      pl_vars>>

TabulaPeers == PromptQuiet /\ DownloadQuiet /\ ResultQuiet /\ FrameQuiet
TabulaOthers == <<early_vars, pr_vars, dl_vars, vr_vars, fr_vars>>
PromptPeers == TabulaQuiet /\ DownloadQuiet /\ ResultQuiet /\ FrameQuiet
PromptOthers == <<early_vars, tb_vars, dl_vars, vr_vars, fr_vars>>
DownloadPeers == TabulaQuiet /\ PromptQuiet /\ ResultQuiet /\ FrameQuiet
DownloadOthers == <<early_vars, tb_vars, pr_vars, vr_vars, fr_vars>>
ResultPeers == TabulaQuiet /\ PromptQuiet /\ DownloadQuiet /\ FrameQuiet
ResultOthers == <<early_vars, tb_vars, pr_vars, dl_vars, fr_vars>>
FramePeers == TabulaQuiet /\ PromptQuiet /\ DownloadQuiet /\ ResultQuiet
FrameOthers == <<early_vars, tb_vars, pr_vars, dl_vars, vr_vars>>

TabulaInit ==
    /\ tb_lattice \in CandidateAnswers
    /\ tb_stream \in CandidateAnswers
    /\ TabulaStart
    /\ EarlyQuiet
    /\ TabulaPeers

DownloadInit ==
    /\ dl_year \in START_YEAR..MaxYear
    /\ dl_month \in 1..12
    /\ DownloadStart
    /\ EarlyQuiet
    /\ DownloadPeers

ResultInit ==
    /\ ResultQuiet
    /\ EarlyQuiet
    /\ ResultPeers

FrameInit ==
    /\ fr_before \in RegionTables
    /\ FrameStart
    /\ EarlyQuiet
    /\ FramePeers

PromptInit ==
    /\ pr_name \in SourceNames
    /\ pr_type \in PropertyTypes
    /\ pr_text \in PageTexts
    /\ PromptStart
    /\ EarlyQuiet
    /\ PromptPeers

ColsInit ==
    /\ cc_df \in InputTables
    /\ cc_expected \in ExpectedLists
    /\ ColsStart
    /\ EraQuiet
    /\ StoreQuiet
    /\ NormQuiet /\ RestQuiet

Init ==
    /\ api_key \in BOOLEAN
    /\ run_type \in PropertyTypes
    /\ StoreStart
    /\ EraQuiet
    /\ ColsQuiet
    /\ NormQuiet /\ RestQuiet

(***************************************************************************)
(* Classifier and dispatcher calls                                         *)
(***************************************************************************)

\* One document's pass through the classifier and the dispatcher.
Classify ==
    /\ era_pc = "input"
    /\ period' = determine_period(date_str)
    /\ extractor' = get_table_extractor(date_str, property_type)
    /\ expected_columns' = get_expected_columns(property_type, period')
    /\ era_pc' = "called"
    /\ UNCHANGED <<year, month, date_str, property_type, store_vars, batch_vars, cc_vars, nz_vars, rest_vars>>

\* The next document arrives.
NextDocument ==
    /\ era_pc = "called"
    /\ \E y \in START_YEAR..MaxYear, m \in 1..12, p \in PropertyTypes :
          /\ year' = y
          /\ month' = m
          /\ property_type' = p
          /\ date_str' = DateStr(y, m)
    /\ era_pc' = "input"
    /\ period' = "none"
    /\ extractor' = "none"
    /\ expected_columns' = <<>>
    /\ UNCHANGED <<store_vars, batch_vars, cc_vars, nz_vars, rest_vars>>

EraNext == Classify \/ NextDocument

SpecEra == EraInit /\ [][EraNext]_vars

(***************************************************************************)
(* Conversion of single documents and of batches                           *)
(***************************************************************************)

\* csv_converter.process_pdf(pdf_path, output_path, date_str, property_type, overwrite)
ProcessPdf ==
    /\ b_pc = "idle"
    /\ \E d \in DocDates, overwrite \in BOOLEAN :
          \E x \in Extractions(get_table_extractor(d, run_type)),
             clean \in CleanOutcomes, csv \in CsvOutcomes :
             \E r \in {process_pdf(store[d], overwrite, x.ex, clean, csv)} :
                CallProcessPdf(d, overwrite, x, clean, csv, r)
    /\ UNCHANGED <<api_key, run_type, batch_vars, era_vars, cc_vars, nz_vars, rest_vars>>

\* convert_type(property_type, overwrite) up to its loop (lines 112-120)
ConvertStart ==
    /\ b_pc \in {"idle", "returned", "raised"}
    /\ \E overwrite \in BOOLEAN, files \in SeqUpTo(DocDates \cup {NoDate}, MaxBatch) :
          /\ b_overwrite' = overwrite
          /\ b_files' = files
          /\ b_pc' = IF files = <<>> THEN "returned" ELSE "loop"
    /\ b_idx' = 1
    /\ b_results' = <<>>
    /\ b_failed' = <<>>
    /\ UNCHANGED <<store_vars, era_vars, cc_vars, nz_vars, rest_vars>>

\* one iteration of the loop over a file whose name yields no date (lines 122-125)
ConvertSkip ==
    /\ b_pc = "loop"
    /\ b_idx <= Len(b_files)
    /\ b_files[b_idx] = NoDate
    /\ b_idx' = b_idx + 1
    /\ UNCHANGED <<b_pc, b_overwrite, b_files, b_results, b_failed, store_vars, era_vars, cc_vars, nz_vars, rest_vars>>

\* one iteration of the loop over a file with a date (lines 122-145)
ConvertFile ==
    /\ b_pc = "loop"
    /\ b_idx <= Len(b_files)
    /\ b_files[b_idx] # NoDate
    /\ LET d == b_files[b_idx]
       IN  \E x \in Extractions(get_table_extractor(d, run_type)),
              clean \in CleanOutcomes, csv \in CsvOutcomes :
              \E r \in {process_pdf(store[d], b_overwrite, x.ex, clean, csv)} :
                 /\ CallProcessPdf(d, b_overwrite, x, clean, csv, r)
                 /\ b_results' = Append(b_results,
                                        [date |-> d, success |-> r.success,
                                         num_rows |-> r.shape[1],
                                         num_cols |-> r.shape[2]])
                 /\ b_failed' = Append(b_failed, r.extracted /\ ~r.saved)
    /\ b_idx' = b_idx + 1
    /\ UNCHANGED <<api_key, run_type, b_pc, b_overwrite, b_files, era_vars, cc_vars, nz_vars, rest_vars>>

\* the statistics after the loop and the return (lines 147-158):
\* successful_files / total_files raises ZeroDivisionError when no file was attempted
ConvertFinish ==
    /\ b_pc = "loop"
    /\ b_idx > Len(b_files)
    /\ b_pc' = IF Len(b_results) = 0 THEN "raised" ELSE "returned"
    /\ UNCHANGED <<b_overwrite, b_files, b_idx, b_results, b_failed, store_vars, era_vars, cc_vars, nz_vars, rest_vars>>

\* Single-document conversions against the artifact store.
Next == ProcessPdf

Spec == Init /\ [][Next]_vars

\* Batch conversions against the artifact store.
BatchNext == ConvertStart \/ ConvertSkip \/ ConvertFile \/ ConvertFinish

SpecBatch == Init /\ [][BatchNext]_vars

(***************************************************************************)
(* Calls of the schema consistency enforcer                                *)
(***************************************************************************)

\* normalizer: df = ensure_column_consistency(df, expected_columns)
EnsureColumnConsistency ==
    /\ cc_pc = "input"
    /\ cc_out' = ensure_column_consistency(cc_df, cc_expected)
    /\ cc_variant' = "normalizer"
    /\ cc_pc' = "done"
    /\ UNCHANGED <<cc_df, cc_expected, era_vars, store_vars, batch_vars, nz_vars, rest_vars>>

\* data_processor: df = ensure_column_consistency(df, expected_columns)
EnsureColumnConsistencyDP ==
    /\ cc_pc = "input"
    /\ cc_out' = ensure_column_consistency_dp(cc_df, cc_expected)
    /\ cc_variant' = "data_processor"
    /\ cc_pc' = "done"
    /\ UNCHANGED <<cc_df, cc_expected, era_vars, store_vars, batch_vars, nz_vars, rest_vars>>

ColsNext == EnsureColumnConsistency \/ EnsureColumnConsistencyDP

SpecCols == ColsInit /\ [][ColsNext]_vars

(***************************************************************************)
(* Normalization of one document's table, and a second pass over the       *)
(* result                                                                  *)
(***************************************************************************)

NormOthers == <<era_vars, store_vars, batch_vars, cc_vars, rest_vars>>

\* normalizer: df = normalize_dataset(df, date_str, property_type)
Normalize ==
    /\ nz_pc = "raw"
    /\ nz_first' = normalize_dataset(nz_df, nz_date, nz_type)
    /\ nz_variant' = "normalizer"
    /\ nz_pc' = "once"
    /\ UNCHANGED <<nz_df, nz_date, nz_type, nz_date2, nz_second, NormOthers>>

\* data_processor: df = normalize_dataset(df, date_str, property_type)
NormalizeDP ==
    /\ nz_pc = "raw"
    /\ nz_first' = normalize_dataset_dp(nz_df, nz_date, nz_type)
    /\ nz_variant' = "data_processor"
    /\ nz_pc' = "once"
    /\ UNCHANGED <<nz_df, nz_date, nz_type, nz_date2, nz_second, NormOthers>>

\* the second pass: normalize_dataset over the table the first pass returned,
\* with the same date or, as normalize_type calls it, with none
NormalizeAgain ==
    /\ nz_pc = "once"
    /\ ~nz_first.raised
    /\ \E date \in {nz_date, <<>>} :
          /\ nz_date2' = date
          /\ nz_second' = IF nz_variant = "normalizer"
                          THEN normalize_dataset(nz_first.df, date, nz_type)
                          ELSE normalize_dataset_dp(nz_first.df, date, nz_type)
    /\ nz_pc' = "twice"
    /\ UNCHANGED <<nz_df, nz_date, nz_type, nz_variant, nz_first, NormOthers>>

NormNext == Normalize \/ NormalizeDP \/ NormalizeAgain

SpecNorm == NormInit /\ [][NormNext]_vars

\* normalize_dataset on the tables of misaligned files
SpecMisaligned == MisalignedInit /\ [][Normalize]_vars

(***************************************************************************)
(* Calls of single normalization steps                                     *)
(***************************************************************************)

StepOthers ==
    <<era_vars, store_vars, batch_vars, cc_vars, nz_vars,
      id_vars, va_vars, pl_vars, more_vars>>

\* normalizer: df = standardize_column_names(df)
StandardizeColumnNames ==
    /\ st_pc = "input"
    /\ st_out' = standardize_column_names(st_df)
    /\ st_op' = "standardize_column_names"
    /\ st_pc' = "done"
    /\ UNCHANGED <<st_df, StepOthers>>

\* data_processor: df = standardize_column_names(df)
StandardizeColumnNamesDP ==
    /\ st_pc = "input"
    /\ st_out' = standardize_column_names_dp(st_df)
    /\ st_op' = "standardize_column_names_dp"
    /\ st_pc' = "done"
    /\ UNCHANGED <<st_df, StepOthers>>

\* normalizer: df = convert_numeric_columns(df)
ConvertNumericColumns ==
    /\ st_pc = "input"
    /\ st_out' = convert_numeric_columns(st_df)
    /\ st_op' = "convert_numeric_columns"
    /\ st_pc' = "done"
    /\ UNCHANGED <<st_df, StepOthers>>

\* data_processor: df = convert_numeric_columns(df)
ConvertNumericColumnsDP ==
    /\ st_pc = "input"
    /\ st_out' = convert_numeric_columns_dp(st_df)
    /\ st_op' = "convert_numeric_columns_dp"
    /\ st_pc' = "done"
    /\ UNCHANGED <<st_df, StepOthers>>

StepNext ==
    \/ StandardizeColumnNames
    \/ StandardizeColumnNamesDP
    \/ ConvertNumericColumns
    \/ ConvertNumericColumnsDP

SpecSteps == StepInit /\ [][StepNext]_vars

(***************************************************************************)
(* Calls of the region steps of the normalizer                             *)
(***************************************************************************)

\* df = standardize_region_names(df)
StandardizeRegionNames ==
    /\ st_pc = "input"
    /\ st_out' = standardize_region_names(st_df)
    /\ st_op' = "standardize_region_names"
    /\ st_pc' = "done"
    /\ UNCHANGED <<st_df, StepOthers>>

\* df = add_hierarchy_columns(df)
AddHierarchyColumns ==
    /\ st_pc = "input"
    /\ st_out' = add_hierarchy_columns(st_df)
    /\ st_op' = "add_hierarchy_columns"
    /\ st_pc' = "done"
    /\ UNCHANGED <<st_df, StepOthers>>

RegionNext == StandardizeRegionNames \/ AddHierarchyColumns

SpecRegions == RegionInit /\ [][RegionNext]_vars

(***************************************************************************)
(* Calls of the layout-based table cleaning                                *)
(***************************************************************************)

IdOthers ==
    <<era_vars, store_vars, batch_vars, cc_vars, nz_vars,
      st_vars, va_vars, pl_vars, more_vars>>

\* df = self._identify_municipalities(df)
IdentifyMunicipalities ==
    /\ id_pc = "input"
    /\ id_out' = identify_municipalities(id_df)
    /\ id_pc' = "done"
    /\ UNCHANGED <<id_df, IdOthers>>

IdNext == IdentifyMunicipalities

SpecIdentify == IdInit /\ [][IdNext]_vars

(***************************************************************************)
(* Calls of the validation functions                                       *)
(***************************************************************************)

ValOthers ==
    <<era_vars, store_vars, batch_vars, cc_vars, nz_vars,
      st_vars, id_vars, pl_vars, more_vars>>

\* generate_validation_report(df, date_col, date_str, property_type)
GenerateValidationReport ==
    /\ va_pc = "input"
    /\ \E date_col \in {<<>>, L_date}, date \in {<<>>, DateStr(2021, 6)},
          ptype \in PropertyTypes :
          /\ va_args' = [date_col |-> date_col, date |-> date, ptype |-> ptype]
          /\ va_result' = generate_validation_report(va_df, date_col, date, ptype)
    /\ va_op' = "generate_validation_report"
    /\ va_pc' = "done"
    /\ UNCHANGED <<va_df, ValOthers>>

\* validate_data_consistency(df)
ValidateDataConsistency ==
    /\ va_pc = "input"
    /\ va_result' = validate_data_consistency(va_df)
    /\ va_op' = "validate_data_consistency"
    /\ va_pc' = "done"
    /\ UNCHANGED <<va_df, va_args, ValOthers>>

\* validate_time_series_continuity(df, "date")
ValidateTimeSeriesContinuity ==
    /\ va_pc = "input"
    /\ va_args' = [va_args EXCEPT !.date_col = L_date]
    /\ va_result' = validate_time_series_continuity(va_df, L_date)
    /\ va_op' = "validate_time_series_continuity"
    /\ va_pc' = "done"
    /\ UNCHANGED <<va_df, ValOthers>>

\* validate_numeric_columns(df, None, date_str, property_type)
ValidateNumericColumns ==
    /\ va_pc = "input"
    /\ \E date \in {<<>>, DateStr(2021, 6)}, ptype \in PropertyTypes :
          /\ va_args' = [va_args EXCEPT !.date = date, !.ptype = ptype]
          /\ va_result' = validate_numeric_columns(va_df, date, ptype)
    /\ va_op' = "validate_numeric_columns"
    /\ va_pc' = "done"
    /\ UNCHANGED <<va_df, ValOthers>>

ValNext ==
    \/ GenerateValidationReport
    \/ ValidateDataConsistency
    \/ ValidateTimeSeriesContinuity

SpecValidate == ValInit /\ [][ValNext]_vars

\* validate_numeric_columns on the tables of signed numbers
SpecSign == SignInit /\ [][ValidateNumericColumns]_vars

(***************************************************************************)
(* Conversion of the documents, then the normalize command                 *)
(***************************************************************************)

PipeOthers ==
    <<era_vars, store_vars, batch_vars, cc_vars, nz_vars,
      st_vars, id_vars, va_vars, more_vars>>

\* process_pdf of the next document with the layout-based extractor: the raw
\* table is cleaned and written; an empty raw table or an exception of
\* clean_table leaves no file
ConvertDocument ==
    /\ pl_pc = "convert"
    /\ LET cleaned == Pre2020_clean_table(pl_raw[pl_idx])
       IN  pl_files' = [pl_files EXCEPT ![pl_idx] =
                           IF FrameEmpty(pl_raw[pl_idx]) \/ cleaned.raised THEN NoFile
                           ELSE [exists |-> TRUE, df |-> cleaned.df]]
    /\ pl_idx' = pl_idx + 1
    /\ pl_pc' = IF pl_idx = Len(PipelineDates) THEN "normalize" ELSE "convert"
    /\ UNCHANGED <<pl_raw, pl_args, pl_frames, pl_combined, pl_second, pl_out>>
    /\ UNCHANGED PipeOthers

\* normalize_type(property_type, validate=False, date): the files are read
\* and normalized, combined, normalized again, sorted, filtered and saved
NormalizeType ==
    /\ pl_pc = "normalize"
    /\ \E date \in PipelineArgs, ptype \in PropertyTypes :
          /\ pl_args' = [date |-> date, ptype |-> ptype]
          /\ pl_frames' = NormalizedFiles(pl_files, PipelineDates, date, ptype)
          /\ pl_combined' = Combined(pl_frames')
          /\ pl_second' = SecondPass(pl_combined', date, ptype)
          /\ pl_out' = SortAndSave(pl_combined', pl_second', ptype)
    /\ pl_pc' = "done"
    /\ UNCHANGED <<pl_raw, pl_files, pl_idx>>
    /\ UNCHANGED PipeOthers

PipeNext == ConvertDocument \/ NormalizeType

SpecPipeline == PipeInit /\ [][PipeNext]_vars

(***************************************************************************)
(* Calls of the table detection of the layout-based extractor              *)
(***************************************************************************)

\* df = self._extract_tabula_tables(pdf_path)
ExtractTabulaTables ==
    /\ tb_pc = "input"
    /\ tb_ran' = IF RetriesWithStream(tb_lattice) THEN <<"lattice", "stream">>
                 ELSE <<"lattice">>
    /\ tb_out' = extract_tabula_tables(tb_lattice, tb_stream).df
    /\ tb_pc' = "done"
    /\ UNCHANGED <<tb_lattice, tb_stream, TabulaOthers>>

TabulaNext == ExtractTabulaTables

SpecTabula == TabulaInit /\ [][TabulaNext]_vars

(***************************************************************************)
(* Calls of the prompt generation of the assisted extractor                *)
(***************************************************************************)

\* self._generate_prompt(page_text, base_name)
GeneratePrompt ==
    /\ pr_pc = "input"
    /\ pr_prompt' = generate_prompt(pr_text, pr_name, pr_type)
    /\ pr_pc' = "done"
    /\ UNCHANGED <<pr_name, pr_type, pr_text, PromptOthers>>

PromptNext == GeneratePrompt

SpecPrompt == PromptInit /\ [][PromptNext]_vars

(***************************************************************************)
(* Download of a report and extraction of its pages                        *)
(***************************************************************************)

\* TrrebDownloader.download_file(year, month): the file is there already or
\* the server answers 200 and it is written, or nothing is written
DownloadFile ==
    /\ dl_pc = "request"
    /\ \E ok \in BOOLEAN :
          /\ dl_path' = IF ok THEN ReportFileName(dl_year, dl_month) ELSE <<>>
          /\ dl_pc' = IF ok THEN "downloaded" ELSE "failed"
    /\ UNCHANGED <<dl_year, dl_month, dl_date, dl_page, DownloadOthers>>

\* PageExtractor.extract_pdf_pages(pdf_path), lines 116-127: the date of the
\* file name, else the name without suffix, names the page files
ExtractPdfPages ==
    /\ dl_pc = "downloaded"
    /\ dl_date' = IF extract_date_from_filename(dl_path) # <<>>
                  THEN extract_date_from_filename(dl_path)
                  ELSE Stem(dl_path)
    /\ dl_page' = dl_date' \o T_dot_pdf
    /\ dl_pc' = "extracted"
    /\ UNCHANGED <<dl_year, dl_month, dl_path, DownloadOthers>>

DownloadNext == DownloadFile \/ ExtractPdfPages

SpecDownload == DownloadInit /\ [][DownloadNext]_vars

(***************************************************************************)
(* Calls of ValidationResult.add_issue                                     *)
(***************************************************************************)

\* result.add_issue(issue)
AddIssue ==
    /\ Len(vr_added) < MaxIssues
    /\ \E issue \in IssueTexts :
          /\ vr_result' = add_issue(vr_result, issue)
          /\ vr_added' = Append(vr_added, issue)
    /\ UNCHANGED ResultOthers

ResultNext == AddIssue

SpecResult == ResultInit /\ [][ResultNext]_vars

(***************************************************************************)
(* Calls seen from the caller's table                                      *)
(***************************************************************************)

\* normalizer: normalize_dataset(df, date_str, property_type); an empty table
\* is returned as it is (line 509)
CallNormalizeDataset ==
    /\ fr_pc = "input"
    /\ \E date \in {<<>>, DateStr(2021, 6)}, ptype \in PropertyTypes :
          fr_out' = normalize_dataset(fr_caller, date, ptype)
    /\ fr_caller' = normalize_dataset_caller(fr_caller)
    /\ fr_same' = FrameEmpty(fr_caller)
    /\ fr_op' = "normalize_dataset"
    /\ fr_pc' = "done"
    /\ UNCHANGED <<fr_before, FrameOthers>>

\* normalizer: one of the transform steps; each returns an empty table as it
\* is and works on df.copy() otherwise (lines 98-108, 154-158, 191-195,
\* 279-287)
CallTransformStep ==
    /\ fr_pc = "input"
    /\ \E op \in {"standardize_region_names", "standardize_column_names",
                   "convert_numeric_columns", "add_hierarchy_columns"} :
          /\ fr_op' = op
          /\ fr_out' = Returned(
                 IF op = "standardize_region_names" THEN standardize_region_names(fr_caller)
                 ELSE IF op = "standardize_column_names"
                      THEN standardize_column_names(fr_caller)
                 ELSE IF op = "convert_numeric_columns"
                      THEN convert_numeric_columns(fr_caller)
                 ELSE add_hierarchy_columns(fr_caller))
    /\ fr_caller' = fr_caller
    /\ fr_same' = FrameEmpty(fr_caller)
    /\ fr_pc' = "done"
    /\ UNCHANGED <<fr_before, FrameOthers>>

\* Pre2020TableExtractor._standardize_region_names(df), lines 267-288: the
\* mapped names are assigned to df[region_col] and df is returned
CallPre2020RegionNames ==
    /\ fr_pc = "input"
    /\ fr_out' = Returned(Pre2020_standardize_region_names(fr_caller))
    /\ fr_caller' = Pre2020_standardize_region_names(fr_caller)
    /\ fr_same' = TRUE
    /\ fr_op' = "_standardize_region_names"
    /\ fr_pc' = "done"
    /\ UNCHANGED <<fr_before, FrameOthers>>

FrameNext == CallNormalizeDataset \/ CallTransformStep \/ CallPre2020RegionNames

SpecFrame == FrameInit /\ [][FrameNext]_vars

(***************************************************************************)
(* Properties of the classifier and the dispatcher                         *)
(***************************************************************************)

\* Months since year 0 of the publication date the date string was formatted from.
MonthIndex == year * 12 + month

LayoutBased == "Pre2020TableExtractor"
Assisted == "Post2020TableExtractor"

\* C5 (as stated): the dispatcher returns the layout-based extractor for the
\* Early and Mid eras and the assisted extractor for the Late era only.
C5_LayoutForEarlyAndMid ==
    era_pc = "called" =>
        /\ extractor = LayoutBased <=> period \in {"pre-2020", "mid-period"}
        /\ extractor = Assisted <=> period = "post-2022"

\* C5 (amended): the dispatcher returns the layout-based extractor exactly for
\* the Early era and the assisted extractor exactly for the Mid and Late eras;
\* the choice is a function of the era alone and is the same for both categories.
C5_LayoutForEarlyOnly ==
    era_pc = "called" =>
        /\ extractor = LayoutBased <=> period = "pre-2020"
        /\ extractor = Assisted <=> period \in {"mid-period", "post-2022"}
        /\ \A p \in PropertyTypes : get_table_extractor(date_str, p) = extractor

C5_Witness ==
    /\ era_pc = "called"
    /\ period = "mid-period"
    /\ extractor = Assisted
    /\ property_type = "detached"

\* C6: determine_period returns exactly one of the three tags, and the tag is
\* ordered by the two boundaries: pre-2020 iff the date is before 2020-01,
\* mid-period iff it is from 2020-01 up to but excluding 2022-04, post-2022 iff
\* it is 2022-04 or later.
C6_PeriodByBoundaries ==
    era_pc = "called" =>
        /\ period \in Periods
        /\ period = "pre-2020" <=> MonthIndex < 2020 * 12 + 1
        /\ period = "mid-period" <=>
              (2020 * 12 + 1 <= MonthIndex /\ MonthIndex < 2022 * 12 + 4)
        /\ period = "post-2022" <=> MonthIndex >= 2022 * 12 + 4

C6_Witness ==
    /\ era_pc = "called"
    /\ year = 2022 /\ month = 4
    /\ period = "post-2022"

\* C7: the expected-column list of every (era, category) pair is non-empty and
\* holds no field name twice.
C7_ColumnsNonEmptyDistinct ==
    era_pc = "called" =>
        /\ Len(expected_columns) > 0
        /\ \A i, j \in 1..Len(expected_columns) :
              i # j => expected_columns[i] # expected_columns[j]

C7_Witness ==
    /\ era_pc = "called"
    /\ property_type = "all_home_types"
    /\ period = "mid-period"
    /\ Len(expected_columns) > Len(PRE_2020_ALL_HOME_COLUMNS)

\* C8: for category detached the expected-column list is the same in all three
\* eras, while for category all_home_types some era has a different list.
C8_DetachedEraInvariant ==
    era_pc = "called" =>
        /\ property_type = "detached" =>
              \A p \in Periods :
                  get_expected_columns("detached", p) = expected_columns
        /\ property_type = "all_home_types" =>
              \E p \in Periods :
                  get_expected_columns("all_home_types", p) # expected_columns

C8_Witness ==
    /\ era_pc = "called"
    /\ property_type = "all_home_types"
    /\ period = "pre-2020"
    /\ get_expected_columns("all_home_types", "mid-period") # expected_columns
    /\ get_expected_columns("detached", "mid-period")
          = get_expected_columns("detached", "pre-2020")

(***************************************************************************)
(* Properties of process_pdf and of the batch driver                       *)
(***************************************************************************)

\* C1: a process_pdf call whose output file already exists, with overwrite
\* false, returns success, invokes neither extract_table nor clean_table and
\* leaves the output file as it was.
C1_CachedCallShortCircuits ==
    (call.made /\ call.existed /\ ~call.overwrite) =>
        /\ call.success
        /\ ~call.extracted
        /\ ~call.cleaned
        /\ call.unchanged

C1_Witness ==
    /\ call.made /\ call.existed /\ ~call.overwrite
    /\ call.success /\ ~call.extracted
    /\ call.shape # EmptyFrame

\* C2: once a process_pdf call on an output has returned success, no later
\* call on that output with overwrite false invokes extract_table.
C2_NoExtractionAfterSuccess ==
    (call.made /\ ~call.overwrite /\ call.had_success) => ~call.extracted

C2_Witness ==
    /\ call.made /\ ~call.overwrite /\ call.had_success
    /\ call.success /\ ~call.extracted
    /\ materialized[call.date]

DatedFiles == SelectSeq(b_files, LAMBDA f : f # NoDate)

\* C3: whatever the batch and whichever extractions fail, convert_type attempts
\* every document that has a date, records success = False for exactly the
\* failing ones and success = True for the others, and no exception escapes.
C3_BatchNeverRaises ==
    /\ b_pc # "raised"
    /\ b_pc = "returned" =>
          /\ Len(b_results) = Len(DatedFiles)
          /\ \A i \in 1..Len(b_results) :
                /\ b_results[i].date = DatedFiles[i]
                /\ b_results[i].success = ~b_failed[i]


(***************************************************************************)
(* Properties of the schema consistency enforcer                           *)
(***************************************************************************)

\* C9: for every input table and every expected-field list E, the columns of
\* ensure_column_consistency(table, E) contain every field of E, those fields
\* stand in the same relative order as in E, and each field of E that the
\* input lacked holds null in every row.
C9_ExpectedFieldsPresentInOrder ==
    cc_pc = "done" =>
        /\ \A k \in 1..Len(cc_expected) : HasCol(cc_out, cc_expected[k])
        /\ \A j, k \in 1..Len(cc_expected) :
              j < k => ColIndex(cc_out, cc_expected[j]) < ColIndex(cc_out, cc_expected[k])
        /\ \A k \in 1..Len(cc_expected) :
              ~HasCol(cc_df, cc_expected[k]) =>
                  \A r \in 1..Len(cc_out.rows) : Column(cc_out, cc_expected[k])[r] = NullCell

\* C10: ensure_column_consistency never drops a column: every column of the
\* input is a column of the output with the same cells, the output order is
\* the region column, then the expected fields, then the remaining input
\* columns in their input order, and the number and order of rows are unchanged.
C10_NoColumnDropped ==
    cc_pc = "done" =>
        /\ Len(cc_out.rows) = Len(cc_df.rows)
        /\ \A i \in 1..Len(cc_df.columns) :
              /\ HasCol(cc_out, cc_df.columns[i])
              /\ Column(cc_out, cc_df.columns[i]) = Column(cc_df, cc_df.columns[i])
        /\ cc_df.columns # <<>> =>
              LET region_col == cc_df.columns[1]
                  wanted == SelectSeq(cc_expected, LAMBDA c : c # region_col)
                  extras == SelectSeq(cc_df.columns, LAMBDA c :
                                c # region_col /\ ~InSeq(cc_expected, c))
              IN  cc_out.columns = <<region_col>> \o wanted \o extras


(***************************************************************************)
(* Properties of normalization                                             *)
(***************************************************************************)

\* Two cells hold the same value: both null, or the same notation.
SameCell(x, y) == x.na = y.na /\ (x.na \/ x.s = y.s)

SameTable(a, b) ==
    /\ a.columns = b.columns
    /\ Len(a.rows) = Len(b.rows)
    /\ \A r \in 1..Len(a.rows) : \A k \in 1..Len(a.columns) :
          SameCell(a.rows[r][k], b.rows[r][k])

\* C11: normalization is idempotent: normalize_dataset applied to the result
\* of normalize_dataset changes no column label and no region, metric,
\* parent_region or region_type value.
C11_Idempotent ==
    nz_pc = "twice" => ~nz_second.raised /\ SameTable(nz_second.df, nz_first.df)

\* The scenario: the region column has an empty label, the sale counts read
\* '1,234' and the average prices '$850,000'; all home types, a Mid-era date.
ScenarioTable ==
    /\ nz_df.columns = <<L_Empty, L_Hash_of_Sales, L_Average_Price>>
    /\ nz_df.rows # <<>>
    /\ \A r \in 1..Len(nz_df.rows) : nz_df.rows[r][2] = Str(T_1_234)
    /\ nz_type = "all_home_types"
    /\ nz_date # <<>>
    /\ determine_period(nz_date) = "mid-period"

\* C12: in the scenario normalize_dataset yields, for a row holding a variant
\* of the top-level total, region 'TRREB Total', region_type 'Total',
\* parent_region 'None', Sales 1234 and Average Price 850000, with every other
\* Mid-era expected field present and null.
C12_ScenarioRecord ==
    (nz_pc # "raw" /\ ScenarioTable) =>
        /\ ~nz_first.raised
        /\ Len(nz_first.df.rows) = Len(nz_df.rows)
        /\ \A k \in 1..Len(MID_PERIOD_ALL_HOME_COLUMNS) :
              HasCol(nz_first.df, MID_PERIOD_ALL_HOME_COLUMNS[k])
        /\ \A r \in 1..Len(nz_df.rows) :
              nz_df.rows[r][1] = Str(R_TREB_Total) =>
                  /\ nz_first.df.rows[r][1] = Str(R_TRREB_Total)
                  /\ Column(nz_first.df, L_region_type)[r] = Str(T_Total)
                  /\ Column(nz_first.df, L_parent_region)[r] = Str(T_None)
                  /\ Column(nz_first.df, L_Sales)[r] = Num(<<"1", "2", "3", "4">>)
                  /\ Column(nz_first.df, L_Average_Price)[r]
                        = Num(<<"8", "5", "0", "0", "0", "0">>)
                  /\ \A k \in 1..Len(MID_PERIOD_ALL_HOME_COLUMNS) :
                        MID_PERIOD_ALL_HOME_COLUMNS[k] \notin {L_Sales, L_Average_Price}
                            => Column(nz_first.df, MID_PERIOD_ALL_HOME_COLUMNS[k])[r].na

C12_Witness ==
    /\ nz_pc = "once"
    /\ nz_variant = "normalizer"
    /\ ScenarioTable
    /\ Len(nz_df.rows) = 1
    /\ nz_df.rows[1][1] = Str(R_TREB_Total)
    /\ nz_first.df.rows[1][1] = Str(R_TRREB_Total)


(***************************************************************************)
(* Properties of the typing of cells                                       *)
(***************************************************************************)

Converted == st_pc = "done" /\ st_op \in {"convert_numeric_columns", "convert_numeric_columns_dp"}

\* the percentage a source cell of a ratio column denotes
SourcePercentage(c) == IF IsNum(c) THEN ValueOf(c) ELSE NumberOf(Remove(c.s, "%"))

\* C13: after cell typing every non-null value of a ratio column (SNLR Trend,
\* Avg SP/LP) is the source percentage divided by 100, whether the source
\* cell was text with a percent sign, text without one, or a number.
C13_RatioIsFraction ==
    Converted =>
        \A k \in 1..Len(st_out.columns) :
            st_out.columns[k] \in percentage_cols =>
                \A r \in 1..Len(st_out.rows) :
                    LET out == st_out.rows[r][k]
                        src == st_df.rows[r][k]
                    IN  ~out.na =>
                            /\ IsNum(out)
                            /\ ValueOf(out) = Div100(SourcePercentage(src))

metric_cols == price_cols \cup count_cols \cup percentage_cols \cup decimal_cols

\* the text of a cell without the symbols its column's type allows
Unformatted(label, t) ==
    IF label \in price_cols THEN Remove(Remove(t, "$"), ",")
    ELSE IF label \in count_cols THEN Remove(t, ",")
    ELSE IF label \in percentage_cols THEN Remove(t, "%")
    ELSE t

\* the cell can be coerced to the type declared for its column
Coercible(label, c) == ~c.na /\ (IsNum(c) \/ IsNumberText(Unformatted(label, c.s)))

\* the number the cell denotes
Coerced(label, c) ==
    IF IsNum(c) THEN ValueOf(c) ELSE NumberOf(Unformatted(label, c.s))

\* C14: a coercion failure is local to its cell: in every metric column a
\* cell that cannot be coerced is stored as null, every other cell of the
\* column as a number, which for money, counts and decimals is the number
\* the cell denotes or its whole part.
C14_FailureIsLocal ==
    Converted =>
        \A k \in 1..Len(st_out.columns) :
            st_out.columns[k] \in metric_cols =>
                \A r \in 1..Len(st_out.rows) :
                    LET label == st_out.columns[k]
                        out == st_out.rows[r][k]
                        src == st_df.rows[r][k]
                    IN  /\ IsNum(out)
                        /\ out.na <=> ~Coercible(label, src)
                        /\ ~out.na /\ label \notin percentage_cols =>
                               ValueOf(out) \in {Coerced(label, src),
                                                 Truncated(Coerced(label, src))}

(***************************************************************************)
(* Properties of the canonicalization of column labels                     *)
(***************************************************************************)

Renamed == st_pc = "done" /\ st_op \in {"standardize_column_names", "standardize_column_names_dp"}

\* the canonical label of a key of the column label map, the label itself otherwise
Canonical(label) ==
    IF \E i \in 1..Len(COLUMN_NAME_MAPPING) : COLUMN_NAME_MAPPING[i][1] = label
    THEN LET i == CHOOSE i \in 1..Len(COLUMN_NAME_MAPPING) : COLUMN_NAME_MAPPING[i][1] = label
         IN  COLUMN_NAME_MAPPING[i][2]
    ELSE label

\* C20: standardize_column_names renames a column label to the canonical
\* label iff the exact raw label is a key of the column label map, and
\* leaves every other label exactly as it was.
C20_RenamesIffExactKey ==
    Renamed =>
        /\ Len(st_out.columns) = Len(st_df.columns)
        /\ \A k \in 1..Len(st_df.columns) :
               st_out.columns[k] = Canonical(st_df.columns[k])

\* C20, amended: a table without rows or without columns is returned as it
\* is; otherwise the data_processor variant looks the exact label up, and
\* the normalizer variant looks up the label with surrounding whitespace
\* and double quotes removed, a label that is no key being left in that
\* trimmed form.  The cells are never changed.
C20_RenamesTrimmedOrExact ==
    Renamed =>
        IF st_df.rows = <<>> \/ st_df.columns = <<>>
        THEN st_out = st_df
        ELSE /\ st_out.rows = st_df.rows
             /\ Len(st_out.columns) = Len(st_df.columns)
             /\ \A k \in 1..Len(st_df.columns) :
                    LET raw == st_df.columns[k]
                        looked_up == IF st_op = "standardize_column_names"
                                     THEN Strip(StripQuote(Strip(raw)))
                                     ELSE raw
                    IN  st_out.columns[k] = Canonical(looked_up)

\* the normalizer has renamed a padded variant that is no key of the map
C20_Witness ==
    /\ Renamed
    /\ st_op = "standardize_column_names"
    /\ st_df.rows # <<>>
    /\ st_df.columns[2] = L_Padded_Avg_Price
    /\ st_out.columns[2] = L_Average_Price

(***************************************************************************)
(* Properties of the layout-based table cleaning                           *)
(***************************************************************************)

\* the first of the second and third columns that holds an anchor region
PromotedColumn(df) ==
    IF HasMunicipality(ColumnAt(df, 2)) THEN 2 ELSE 3

\* the first column holds no anchor region and the second or third one does
RegionsInLaterColumn(df) ==
    /\ df.rows # <<>>
    /\ ~HasMunicipality(ColumnAt(df, 1))
    /\ \E k \in {2, 3} : k <= Len(df.columns) /\ HasMunicipality(ColumnAt(df, k))

\* no examined column and no examined row holds an anchor region
NoRegionsFound(df) ==
    /\ \A k \in 1..Len(df.columns) : k <= 3 => ~HasMunicipality(ColumnAt(df, k))
    /\ \A r \in 1..Len(df.rows) : r <= 5 => ~HasMunicipality(df.rows[r])

Reported == va_pc = "done" /\ va_op = "generate_validation_report"

IsPrefix(p, q) == Len(p) <= Len(q) /\ SubSeq(q, 1, Len(p)) = p

\* the issues of the checks that ran, in check order
CheckIssues ==
    validate_regions(va_df).issues
        \o validate_numeric_columns(va_df, va_args.date, va_args.ptype).issues
        \o validate_data_consistency(va_df).issues
        \o (IF va_args.date_col # <<>> /\ HasCol(va_df, va_args.date_col)
            THEN validate_time_series_continuity(va_df, va_args.date_col).issues
            ELSE <<>>)

\* C17: for every dataset, one without rows or without columns included,
\* generate_validation_report raises no exception and returns a result
\* whose issue list holds, in order, the issues of the region, numeric,
\* consistency and continuity checks, so that the result is valid only if
\* every check returned no issue.
C17_ReportNeverRaises ==
    Reported =>
        /\ ~va_result.raised
        /\ IsPrefix(CheckIssues, va_result.issues)
        /\ is_valid(va_result) => CheckIssues = <<>>

Checked == va_pc = "done" /\ va_op = "validate_data_consistency"

AveragePriceIssues ==
    SelectSeq(va_result.issues, LAMBDA issue : issue.what = "average price")

\* the cells of a row that the recomputation reads
SalesOf(row) == row[ColIndex(va_df, L_Sales)]
VolumeOf(row) == row[ColIndex(va_df, L_Dollar_Volume)]
AverageOf(row) == row[ColIndex(va_df, L_Average_Price)]

\* the recomputed average Dollar Volume / Sales is a number: 0 / 0 is none
Recomputed(row) ==
    /\ ~SalesOf(row).na /\ ~VolumeOf(row).na
    /\ ~(IntOf(SalesOf(row)) = 0 /\ IntOf(VolumeOf(row)) = 0)

\* |stored - volume / sales| > 0.5% of volume / sales, both sides multiplied
\* by the sale count, the whole part of the right side deciding for whole
\* numbers; a recomputed average without bound is beyond any tolerance
BeyondTolerance(row) ==
    LET sales == IntOf(SalesOf(row))
        volume == IntOf(VolumeOf(row))
        stored == IntOf(AverageOf(row))
    IN  \/ sales = 0
        \/ Abs(stored * sales - volume) > (5 * Abs(volume)) \div 1000

\* C18: validate_data_consistency reports an Average Price issue iff some
\* row with a stored and a recomputed average (Dollar Volume / Sales) has
\* them differ by more than 0.5% of the recomputed one, and one issue at
\* most; Sales = 100, Dollar Volume = 85,000,000, Average Price = 849,999
\* gives none.
C18_AveragePriceTolerance ==
    (Checked /\ \A i \in 1..Len(required_cols) :
                    /\ HasCol(va_df, required_cols[i])
                    /\ IsNumericColumn(Column(va_df, required_cols[i]))) =>
        /\ Len(AveragePriceIssues) <= 1
        /\ AveragePriceIssues # <<>> <=>
               \E r \in 1..Len(va_df.rows) :
                   /\ ~AverageOf(va_df.rows[r]).na
                   /\ Recomputed(va_df.rows[r])
                   /\ BeyondTolerance(va_df.rows[r])

\* the record of the scenario, alone in its table, has been checked without issue
C18_Witness ==
    /\ Checked
    /\ va_df.rows = <<<<Str(R_TRREB_Total), Num(T_100), Num(T_85_000_000), Num(T_849_999)>>>>
    /\ va_result = Result(<<>>)

Continuity == va_pc = "done" /\ va_op = "validate_time_series_continuity"

\* the days on which the table has a record of the region
RecordDays(region) ==
    {DayOf(va_df.rows[r][ColIndex(va_df, L_date)].s) :
        r \in {r \in 1..Len(va_df.rows) :
                  /\ va_df.rows[r][1] = Str(region)
                  /\ ~va_df.rows[r][ColIndex(va_df, L_date)].na}}

\* two records of the region that are consecutive in date order lie more
\* than 35 days apart
HasGap(region) ==
    \E a, b \in RecordDays(region) :
        /\ b - a > 35
        /\ ~\E c \in RecordDays(region) : a < c /\ c < b

GapIssues(region) ==
    SelectSeq(va_result.issues, LAMBDA issue :
        issue.what = "gaps" /\ issue.names = <<region>>)

RECURSIVE IsSubsequence(_, _)
IsSubsequence(a, b) ==
    IF a = <<>> THEN TRUE
    ELSE IF b = <<>> THEN FALSE
    ELSE IF Head(a) = Head(b) THEN IsSubsequence(Tail(a), Tail(b))
    ELSE IsSubsequence(a, Tail(b))

\* the region a raw first cell names, in the canonical spelling
CanonicalRegion(c) == Get(REGION_NAME_MAPPING, Strip(c.s), Strip(c.s))

\* the regions of the rows of document d's raw table, in their order
RawRegions(d) == [r \in 1..Len(pl_raw[d].rows) |-> CanonicalRegion(pl_raw[d].rows[r][1])]

\* the regions of the rows of a table with a 'Region' column
RegionsOf(df) == [r \in 1..Len(df.rows) |-> AsStr(df.rows[r][ColIndex(df, L_Region)])]

\* the rows of document d in the normalized output, in their order
OutputRows(d) ==
    SelectSeq(pl_out.df.rows, LAMBDA row :
        AsStr(row[ColIndex(pl_out.df, L_date_str)]) = PipelineDates[d])

OutputRegions(d) ==
    [r \in 1..Len(OutputRows(d)) |-> AsStr(OutputRows(d)[r][ColIndex(pl_out.df, L_Region)])]

Aggregated == pl_pc = "done" /\ pl_out.saved

Documents == 1..Len(PipelineDates)

\* C15: for every document, its rows in the final normalized output are a
\* subsequence of the rows of its extracted raw table, in the same relative
\* order.
C15_RowOrderPreserved ==
    Aggregated => \A d \in Documents : IsSubsequence(OutputRegions(d), RawRegions(d))

\* C15, amended: cleaning, the CSV hand-over and the normalization of one file
\* drop rows of a document without reordering them; the aggregation of
\* normalize_type then orders the combined rows by region type rank, parent
\* region, region and date, so that a document's rows in the final output all
\* stem from its raw table and stand in the order of that sort key.
C15_OrderedBySortKey ==
    /\ \A d \in Documents :
          ~pl_frames[d].raised /\ HasCol(pl_frames[d].df, L_Region)
              => IsSubsequence(RegionsOf(pl_frames[d].df), RawRegions(d))
    /\ Aggregated =>
          /\ \A d \in Documents :
                \A r \in 1..Len(OutputRegions(d)) :
                    \E q \in 1..Len(RawRegions(d)) : OutputRegions(d)[r] = RawRegions(d)[q]
          /\ \A i, j \in 1..Len(pl_out.df.rows) :
                i < j => ~KeyLess(SortKey(pl_out.df, pl_out.df.rows[j]),
                                  SortKey(pl_out.df, pl_out.df.rows[i]))

\* a document whose rows stand in the output in another order than in its
\* raw table
C15_Witness ==
    /\ Aggregated
    /\ \E d \in Documents :
          /\ Len(OutputRegions(d)) = Len(RawRegions(d))
          /\ Len(OutputRegions(d)) >= 2
          /\ ~IsSubsequence(OutputRegions(d), RawRegions(d))

(***************************************************************************)
(* Properties of the region steps                                          *)
(***************************************************************************)

RegionsStandardized == st_pc = "done" /\ st_op = "standardize_region_names"

\* a value that is purely numeric, held as a number or as numeric text
PurelyNumeric(c) == ~c.na /\ (IsNum(c) \/ IsNumberText(c.s))

\* C21: for every region cell, standardize_region_names stores the canonical
\* name when the exact cell string is a key of the region label map, stores
\* null when the cell value is purely numeric, held as a number or as numeric
\* text, and otherwise leaves the value exactly as it was.
C21_RegionCanonicalOrNull ==
    RegionsStandardized =>
        \A r \in 1..Len(st_df.rows) :
            LET before == st_df.rows[r][1]
                after == st_out.rows[r][1]
            IN  IF IsText(before) /\ HasKey(REGION_NAME_MAPPING, before.s)
                THEN after = Str(Get(REGION_NAME_MAPPING, before.s, before.s))
                ELSE IF PurelyNumeric(before) THEN after.na
                ELSE after = before

HierarchyAdded == st_pc = "done" /\ st_op = "add_hierarchy_columns"

\* the hierarchy keys that list `name` among their children
ParentsOf(name) ==
    {REGION_HIERARCHY[i][1] : i \in {j \in 1..Len(REGION_HIERARCHY) :
                                        InSeq(REGION_HIERARCHY[j][2], name)}}

\* C22: for every row, add_hierarchy_columns sets region_type to Total iff
\* the region equals 'TRREB Total', to Region iff the region is another key of
\* REGION_HIERARCHY, and to Municipality otherwise, and sets parent_region to
\* the unique hierarchy key that lists the region as a child, or to 'None'
\* for the top-level total and for every region the hierarchy does not contain.
C22_HierarchyColumns ==
    HierarchyAdded =>
        \A r \in 1..Len(st_df.rows) :
            LET region == st_df.rows[r][1]
                kind == Column(st_out, L_region_type)[r]
                parent == Column(st_out, L_parent_region)[r]
                total == IsText(region) /\ region.s = R_TRREB_Total
                keyed == IsText(region) /\ ~total
                         /\ \E i \in 1..Len(REGION_HIERARCHY) :
                               REGION_HIERARCHY[i][1] = region.s
                parents == IF IsText(region) THEN ParentsOf(region.s) ELSE {}
            IN  /\ (kind = Str(T_Total)) <=> total
                /\ (kind = Str(L_Region)) <=> keyed
                /\ (kind = Str(T_Municipality)) <=> (~total /\ ~keyed)
                /\ Cardinality(parents) <= 1
                /\ IF parents = {} THEN parent = Str(T_None)
                   ELSE \E p \in parents : parent = Str(p)

\* the total and a region of the hierarchy, typed and given their parents
C22_Witness ==
    /\ HierarchyAdded
    /\ st_df.rows = <<<<Str(R_TRREB_Total), Num(T_21)>>, <<Str(R_Halton_Region), Num(T_21)>>>>
    /\ Column(st_out, L_region_type) = <<Str(T_Total), Str(L_Region)>>
    /\ Column(st_out, L_parent_region) = <<Str(T_None), Str(R_TRREB_Total)>>

(***************************************************************************)
(* Properties of the table detection                                       *)
(***************************************************************************)

Detected == tb_pc = "done"

\* the answer of the mode called last
LastAnswer == IF tb_ran[Len(tb_ran)] = "stream" THEN tb_stream ELSE tb_lattice

\* rows times columns
Product(t) == t[1] * t[2]

\* C23: the bordered heuristic runs first, the borderless one runs iff the
\* bordered result is empty or every candidate table has fewer than 5 rows;
\* of the candidates of the heuristic run last, the table returned has the
\* greatest product of rows and columns and is the first of those that have it.
C23_LargestCandidateFirstOnTie ==
    Detected =>
        /\ tb_ran[1] = "lattice"
        /\ tb_lattice.ok =>
              ((Len(tb_ran) = 2 /\ tb_ran[2] = "stream")
                  <=> \/ tb_lattice.tables = <<>>
                      \/ \A i \in 1..Len(tb_lattice.tables) : tb_lattice.tables[i][1] < 5)
        /\ LastAnswer.ok /\ LastAnswer.tables # <<>> =>
              \E k \in 1..Len(LastAnswer.tables) :
                  /\ tb_out = LastAnswer.tables[k]
                  /\ \A j \in 1..Len(LastAnswer.tables) :
                        Product(LastAnswer.tables[j]) <= Product(tb_out)
                  /\ \A j \in 1..(k - 1) :
                        Product(LastAnswer.tables[j]) < Product(tb_out)

\* two candidates of the same cell count, the first of them returned
C23_Witness ==
    /\ Detected
    /\ tb_lattice = [ok |-> TRUE, tables |-> <<<<6, 2>>, <<4, 3>>>>]
    /\ tb_ran = <<"lattice">>
    /\ tb_out = <<6, 2>>

(***************************************************************************)
(* C24: the sign check                                                     *)
(***************************************************************************)

SignChecked == va_pc = "done" /\ va_op = "validate_numeric_columns"

\* the fields the call expected and the table holds
ExpectedFields ==
    LET expected == IF va_args.date # <<>>
                    THEN get_expected_columns(va_args.ptype, determine_period(va_args.date))
                    ELSE default_numeric_columns
    IN  {expected[i] : i \in 1..Len(expected)} \cap
        {va_df.columns[i] : i \in 1..Len(va_df.columns)}

Negatives(col) ==
    Cardinality({r \in 1..Len(va_df.rows) :
        LET c == va_df.rows[r][ColIndex(va_df, col)]
        IN  IsNum(c) /\ ~c.na /\ ValueOf(c).neg})

SignFlagged(col) ==
    \E i \in 1..Len(va_result.issues) :
        /\ va_result.issues[i].what = "negative values"
        /\ va_result.issues[i].names = <<col>>

\* C24: the sign check of validate_numeric_columns flags an expected field
\* exactly when the field is no ratio field and holds more than 3 values
\* below zero; SNLR Trend and Avg SP/LP are never flagged, however many
\* values below zero they hold.
C24_SignCheckSparesRatios ==
    SignChecked /\ va_df # NoFrame =>
        \A col \in ExpectedFields :
            SignFlagged(col) <=>
                col \notin percentage_cols /\ Negatives(col) > NegativeRows

(***************************************************************************)
(* Properties of the prompt generation                                     *)
(***************************************************************************)

PromptMade == pr_pc = "done" /\ pr_prompt.made

MidTemplates == {MidAllHomeTemplate, MidDetachedTemplate}
LateTemplates == {LateAllHomeTemplate, LateDetachedTemplate}

\* C25: for every document dated 2020-01 or later and each property type,
\* the prompt is built from a template of the middle era exactly when
\* determine_period gives mid-period for the date and from a template of the
\* late era exactly when it gives post-2022, the month 2022-04 included.
C25_TemplateFollowsPeriod ==
    PromptMade /\ ~StrLess(pr_name, EXTRACTION_CUTOFF_DATE) =>
        /\ pr_prompt.template \in MidTemplates <=>
               determine_period(pr_name) = "mid-period"
        /\ pr_prompt.template \in LateTemplates <=>
               determine_period(pr_name) = "post-2022"

(***************************************************************************)
(* Properties of the regions of the normalized table                       *)
(***************************************************************************)

NormalizedOnce == nz_pc = "once" /\ nz_variant = "normalizer" /\ ~nz_first.raised

\* the region cell row r of the input carried: its first cell
InputRegion(r) == nz_df.rows[r][1]

\* C26: in the output of normalize_dataset every region value that is not
\* null is the canonical form of the region cell the same input row carried,
\* and a row whose input region cell was a number or missing has no region.
C26_NoRegionInvented ==
    NormalizedOnce /\ HasCol(nz_first.df, L_Region) =>
        \A r \in 1..Len(nz_first.df.rows) :
            LET c == nz_first.df.rows[r][ColIndex(nz_first.df, L_Region)]
            IN  ~c.na =>
                    /\ r <= Len(nz_df.rows)
                    /\ ~InputRegion(r).na
                    /\ IsText(InputRegion(r))
                    /\ AsStr(c) = CanonicalRegion(InputRegion(r))

(***************************************************************************)
(* Properties of the file names                                            *)
(***************************************************************************)

PagesExtracted == dl_pc = "extracted"

\* C27: for every year from START_YEAR to the current year and every month,
\* the date read from the name of the file download_file writes is
\* 'YYYY-MM' of that year and month, and so the era of the file name is the
\* era of the report's month.
C27_FileNameRoundTrip ==
    PagesExtracted =>
        /\ dl_date = DateStr(dl_year, dl_month)
        /\ determine_period(dl_date) = determine_period(DateStr(dl_year, dl_month))

(***************************************************************************)
(* Properties of what process_pdf returns                                  *)
(***************************************************************************)

\* C28: in every state of the store and for either value of overwrite, a
\* process_pdf call returns success only if the output file exists when the
\* call returns, and a call that returns failure reports the shape (0, 0).
C28_SuccessMeansFileExists ==
    call.made =>
        /\ call.success => call.exists_after
        /\ ~call.success => call.shape = EmptyFrame

C28_Witness ==
    /\ call.made /\ call.overwrite /\ call.existed
    /\ call.success /\ call.saved /\ call.exists_after
    /\ call.shape # EmptyFrame

(***************************************************************************)
(* Properties of the ValidationResult object                               *)
(***************************************************************************)

\* C29: for a ValidationResult created with its default arguments, after
\* any sequence of add_issue calls is_valid is true exactly when the issue
\* list is empty, the issue list holds every added issue in the order of the
\* calls, and is_valid, once false, never becomes true again.
C29_ValidIffNoIssue ==
    /\ [](/\ vr_result.is_valid <=> vr_result.issues = <<>>
          /\ vr_result.issues = vr_added)
    /\ [][~vr_result.is_valid => ~vr_result.is_valid']_vars

C29_Witness ==
    /\ Len(vr_added) = MaxIssues
    /\ vr_added[1] # vr_added[2]
    /\ ~vr_result.is_valid
    /\ vr_result.issues = vr_added

(***************************************************************************)
(* Properties of the caller's table                                        *)
(***************************************************************************)

CallDone == fr_pc = "done"

\* C30: after normalize_dataset or one of the transform steps, every column
\* label and every cell of the table that was passed in is as it was before
\* the call, and the result is a separate table.
C30_CallerTableUntouched ==
    CallDone =>
        /\ fr_caller = fr_before
        /\ ~fr_same

====
